---- MODULE Spec2Model ----
(***************************************************************************)
(* Trusted-network egress proxy with human-in-the-loop domain approval.    *)
(*                                                                         *)
(*   crates/tools/src/domain_approval.rs  DomainPattern, the               *)
(*                                        DomainApprovalManager            *)
(*   crates/tools/src/network_proxy.rs    the per-connection handlers      *)
(*                                                                         *)
(* Strings the code lowercases, trims or splits are sequences of           *)
(* one-character strings, so that those conversions are computed.          *)
(***************************************************************************)
EXTENDS Integers, Sequences, FiniteSets, TLC

----------------------------------------------------------------------------
(* Bounds of the model *)

\* number of approval requests created in one behaviour: a request id (uuid)
\* is drawn once per create_request
MaxRequests == 2

Ids == 1..MaxRequests

\* peer socket addresses, rendered as strings (the session identifiers). Two
\* open connections never have the same peer address, so a connection is
\* named by its peer; a later connection from the same address takes the
\* place of the closed one.
Peers == {"10.0.0.2:5001", "10.0.0.2:5002"}

None == "None"

----------------------------------------------------------------------------
(* Strings *)

\* char::to_lowercase on the characters the model uses
LowerChar(c) ==
    CASE c = "A" -> "a"
      [] c = "B" -> "b"
      [] c = "C" -> "c"
      [] c = "E" -> "e"
      [] c = "G" -> "g"
      [] c = "H" -> "h"
      [] c = "N" -> "n"
      [] c = "O" -> "o"
      [] c = "P" -> "p"
      [] c = "Q" -> "q"
      [] c = "T" -> "t"
      [] c = "X" -> "x"
      [] c = "Y" -> "y"
      [] c = "Z" -> "z"
      [] OTHER   -> c

\* str::to_lowercase
to_lowercase(s) == [i \in 1..Len(s) |-> LowerChar(s[i])]

\* char::is_whitespace on the characters the model uses
IsSpace(c) == c \in {" ", "\r", "\n"}

RECURSIVE trim_start(_)
trim_start(s) ==
    IF s # <<>> /\ IsSpace(Head(s)) THEN trim_start(Tail(s)) ELSE s

RECURSIVE trim_end(_)
trim_end(s) ==
    IF s # <<>> /\ IsSpace(s[Len(s)])
    THEN trim_end(SubSeq(s, 1, Len(s) - 1))
    ELSE s

\* str::trim
trim(s) == trim_end(trim_start(s))

\* str::starts_with
starts_with(s, p) ==
    Len(p) <= Len(s) /\ SubSeq(s, 1, Len(p)) = p

\* str::ends_with
ends_with(s, p) ==
    Len(p) <= Len(s) /\ SubSeq(s, Len(s) - Len(p) + 1, Len(s)) = p

\* str::strip_prefix, for a string that starts with the prefix
strip_prefix(s, p) == SubSeq(s, Len(p) + 1, Len(s))

\* positions of the character c in s
Positions(s, c) == {i \in 1..Len(s) : s[i] = c}

Max(S) == CHOOSE m \in S : \A n \in S : n <= m

Min(S) == CHOOSE m \in S : \A n \in S : m <= n

----------------------------------------------------------------------------
(* DomainPattern *)

\* DomainPattern::parse
parse(raw) ==
    LET s == to_lowercase(trim(raw)) IN
    IF s = <<"*">> THEN [kind |-> "Wildcard", d |-> <<>>]
    ELSE IF starts_with(s, <<"*", ".">>)
         THEN [kind |-> "WildcardSubdomain", d |-> strip_prefix(s, <<"*", ".">>)]
         ELSE [kind |-> "Exact", d |-> s]

\* a wildcard-subdomain match on the suffix's letters alone
matches_NoDot(pattern, candidate) ==
    LET domain == to_lowercase(candidate) IN
    CASE pattern.kind = "Wildcard" -> TRUE
      [] pattern.kind = "Exact" -> domain = pattern.d
      [] pattern.kind = "WildcardSubdomain" -> ends_with(domain, pattern.d)

\* a match on the candidate as it was passed
matches_CaseSensitive(pattern, candidate) ==
    CASE pattern.kind = "Wildcard" -> TRUE
      [] pattern.kind = "Exact" -> candidate = pattern.d
      [] pattern.kind = "WildcardSubdomain" ->
            candidate = pattern.d \/ ends_with(candidate, <<".">> \o pattern.d)

\* DomainPattern::matches
matches(pattern, candidate) ==
    LET domain == to_lowercase(candidate) IN
    CASE pattern.kind = "Wildcard" -> TRUE
      [] pattern.kind = "Exact" -> domain = pattern.d
      [] pattern.kind = "WildcardSubdomain" ->
            domain = pattern.d \/ ends_with(domain, <<".">> \o pattern.d)

----------------------------------------------------------------------------
(* Inputs *)

\* the allowed_domains lists the manager is constructed from
AllowedDomainsChoices ==
    { << <<" ", "A">> >>,
      << <<"b">>, <<"*", ".", "X", ".", "a">> >> }

\* CONNECT targets: host[:port]
ConnectTargets ==
    { <<"A", ":", "8">> }

\* forward-proxy targets: absolute URLs
ForwardTargets ==
    { <<"h", "t", "t", "p", ":", "/", "/", "x", ".", "a", ":", "8", "/", "p">> }

\* request lines, as the list of their whitespace-separated tokens
RequestLines ==
    { <<>>, << <<"G", "E", "T">> >> }
    \cup { << <<"C", "o", "n", "n", "e", "c", "t">>, t >> : t \in ConnectTargets }
    \cup { << <<"G", "E", "T">>, t >> : t \in ForwardTargets }

Decisions == {"Approved", "Denied", "Timeout"}

----------------------------------------------------------------------------
(* Request-line parsing of the proxy *)

\* str::eq_ignore_ascii_case
eq_ignore_ascii_case(a, b) == to_lowercase(a) = to_lowercase(b)

\* the host part of parse_host_port: the text before the last ':'
parse_host_port_host(target) ==
    IF Positions(target, ":") # {}
    THEN SubSeq(target, 1, Max(Positions(target, ":")) - 1)
    ELSE target

Digits == <<"0", "1", "2", "3", "4", "5", "6", "7", "8", "9">>

IsDigit(ch) == \E i \in 1..Len(Digits) : Digits[i] = ch

\* char::to_digit(10)
to_digit(ch) == (CHOOSE i \in 1..Len(Digits) : Digits[i] = ch) - 1

\* u16::MAX
MaxU16 == 65535

\* the digits of s folded into a number, most significant first: <<n>> for
\* Ok(n), <<>> for Err as soon as the number no longer fits in a u16
\* (checked_mul / checked_add)
RECURSIVE fold_digits(_, _)
fold_digits(acc, s) ==
    IF s = <<>> THEN <<acc>>
    ELSE IF acc * 10 + to_digit(Head(s)) > MaxU16 THEN <<>>
         ELSE fold_digits(acc * 10 + to_digit(Head(s)), Tail(s))

\* str::parse::<u16>: an optional '+', then one or more decimal digits, the
\* value at most u16::MAX; <<n>> for Ok(n), <<>> for Err
parse_u16(s) ==
    LET digits == IF s # <<>> /\ Head(s) = "+" THEN Tail(s) ELSE s IN
    IF digits = <<>> \/ \E i \in 1..Len(digits) : ~IsDigit(digits[i])
    THEN <<>>
    ELSE fold_digits(0, digits)

\* a parse_host_port that takes an unparsable port for port 0
parse_host_port_port_Zero(target) ==
    IF Positions(target, ":") # {}
    THEN LET port == parse_u16(SubSeq(target, Max(Positions(target, ":")) + 1,
                                      Len(target)))
         IN IF port = <<>> THEN 0 ELSE port[1]
    ELSE 443

\* the port part of parse_host_port: the text after the last ':' parsed as
\* a u16, unwrap_or(443); 443 when there is no ':'
parse_host_port_port(target) ==
    IF Positions(target, ":") # {}
    THEN LET port == parse_u16(SubSeq(target, Max(Positions(target, ":")) + 1,
                                      Len(target)))
         IN IF port = <<>> THEN 443 ELSE port[1]
    ELSE 443

\* the text after an "http://" or "https://" scheme prefix
after_scheme(url) ==
    IF starts_with(url, <<"h", "t", "t", "p", ":", "/", "/">>)
    THEN strip_prefix(url, <<"h", "t", "t", "p", ":", "/", "/">>)
    ELSE IF starts_with(url, <<"h", "t", "t", "p", "s", ":", "/", "/">>)
         THEN strip_prefix(url, <<"h", "t", "t", "p", "s", ":", "/", "/">>)
         ELSE url

\* after_scheme.split('/').next()
host_port_of(url) ==
    LET a == after_scheme(url) IN
    IF Positions(a, "/") # {} THEN SubSeq(a, 1, Min(Positions(a, "/")) - 1) ELSE a

\* extract_host_from_url
extract_host_from_url(url) ==
    LET hp == host_port_of(url) IN
    IF Positions(hp, ":") # {}
    THEN SubSeq(hp, 1, Max(Positions(hp, ":")) - 1)
    ELSE hp

\* extract_port_from_url
extract_port_from_url(url) ==
    LET is_https == starts_with(url, <<"h", "t", "t", "p", "s", ":", "/", "/">>)
        hp == host_port_of(url)
        default == IF is_https THEN 443 ELSE 80
    IN IF Positions(hp, ":") # {}
       THEN LET port == parse_u16(SubSeq(hp, Max(Positions(hp, ":")) + 1, Len(hp)))
            IN IF port = <<>> THEN default ELSE port[1]
       ELSE default

----------------------------------------------------------------------------
(* State *)

VARIABLES
    config_allowlist,   \* DomainApprovalManager.config_allowlist: Seq of patterns
    session_allowlist,  \* DomainApprovalManager.session_allowlist: session -> set
    pending,            \* DomainApprovalManager.pending: id -> request
    chan,               \* the one-shot channel of every request created so far
    next_id,            \* the next fresh uuid
    resolver,           \* the resolve call in flight
    resolves,           \* history: per id, resolve calls that found its entry
    conn,               \* per peer address, its connection's handler task
    run,                \* NetworkProxyServer::run: where it is, what it returned
    shutdown,           \* the watch channel passed to run: "false", "true",
                        \* or "closed" (its sender dropped, the value false)
    io,                 \* per peer address, the bytes of its connection: on
                        \* the client's socket, in the handler's BufReader and
                        \* locals, on the upstream's socket
    calls,              \* per task, the manager call it is in and the lock
                        \* it is queued for
    locks               \* per RwLock of the manager: the task holding the
                        \* write guard, those holding read guards, the queue

vars == <<config_allowlist, session_allowlist, pending, chan, next_id,
          resolver, resolves, conn, run, shutdown, io, calls, locks>>

\* the tasks that call the manager concurrently
Tasks == {"t1", "t2", "t3"}

\* the manager's two RwLocks, by the name of the field each guards
LockNames == {"pending", "session_allowlist"}

\* tokio::sync::RwLock::new: no guard out, nobody queued
FreeLock == [writer |-> None, readers |-> {}, queue |-> <<>>]

\* a task that is in no call of the manager
NoCall ==
    [op |-> None,       \* the operation called
     pc |-> None,       \* resolve: the statement it is at
     waits |-> None,    \* the lock whose guard it awaits
     session |-> None, domain |-> <<>>, id |-> 0, decision |-> None,
     req |-> [domain |-> <<>>, session |-> None]]

\* no connection from the peer is open and none has been
IdleConn ==
    [pc |-> "closed", method |-> None, session |-> None, domain |-> <<>>,
     action |-> None, id |-> 0, decision |-> None,
     attempted |-> FALSE, upstream |-> <<>>, response |-> None]

\* no bytes anywhere: nothing to read from the client or from the upstream,
\* nothing in the BufReader, nothing written
IdleIo ==
    [script |-> <<>>,       \* every byte the client writes, in order
     sock |-> <<>>,         \* those the proxy has not read from the socket yet
     buf |-> <<>>,          \* BufReader: bytes read ahead, not consumed yet
     line |-> <<>>,         \* the String read_line is appending to
     verb |-> <<>>,         \* parts[0] of the request line
     target |-> <<>>,       \* parts[1] of the request line
     port |-> 0,            \* the port parsed from the target
     headers |-> <<>>,      \* handle_http_forward's headers String
     headers_done |-> FALSE,
     upstream |-> "none",   \* TcpStream::connect: "none", "open", "failed"
     usock |-> <<>>,        \* bytes of the upstream the proxy has not read yet
     up |-> <<>>,           \* bytes written to the upstream socket
     down |-> <<>>,         \* bytes copied from the upstream to the client
     c2u_failed |-> FALSE,  \* the client-to-upstream copy returned Err
     u2c_failed |-> FALSE]  \* the upstream-to-client copy returned Err

\* a connection whose handler task has returned: its locals are gone; what it
\* wrote to the client, whether it tried the upstream and the decision it was
\* given remain
Closed(response, attempted, decision) ==
    [IdleConn EXCEPT !.pc = "closed", !.response = response,
                     !.attempted = attempted, !.decision = decision]

\* no resolve call is in flight
IdleResolver ==
    [pc |-> "idle", id |-> 0, decision |-> None,
     req |-> [domain |-> <<>>, session |-> None]]

\* DomainApprovalManager::new
new(allowed_domains) ==
    /\ config_allowlist = [i \in 1..Len(allowed_domains) |-> parse(allowed_domains[i])]
    /\ session_allowlist = <<>>
    /\ pending = <<>>

Init ==
    /\ \E allowed_domains \in AllowedDomainsChoices : new(allowed_domains)
    /\ chan = <<>>
    /\ next_id = 1
    /\ resolver = IdleResolver
    /\ resolves = [i \in Ids |-> 0]
    /\ conn = [c \in Peers |-> IdleConn]
    /\ run = [pc |-> "bind", result |-> None]
    /\ shutdown = "false"
    /\ calls = [t \in Tasks |-> NoCall]
    /\ locks = [name \in LockNames |-> FreeLock]
    /\ io = [c \in Peers |-> IdleIo]

----------------------------------------------------------------------------
(* DomainApprovalManager *)

\* the pending table's RwLock: resolve holds the write guard from its remove
\* to the end of its then-branch, and not in its else-branch
PendingLockFree == resolver.pc \notin {"insert", "send"}

\* an insertion that replaces the entry of the session
AllowlistInsert_Replaces(al, session, domain) ==
    [s \in DOMAIN al \cup {session} |->
        IF s = session THEN {to_lowercase(domain)} ELSE al[s]]

\* an insertion made into the entry of every session
AllowlistInsert_AllSessions(al, session, domain) ==
    [s \in DOMAIN al \cup Peers |->
        (IF s \in DOMAIN al THEN al[s] ELSE {}) \cup {to_lowercase(domain)}]

\* an insertion of the domain as it was passed
AllowlistInsert_Verbatim(al, session, domain) ==
    IF session \in DOMAIN al
    THEN [al EXCEPT ![session] = @ \cup {domain}]
    ELSE [s \in DOMAIN al \cup {session} |->
            IF s = session THEN {domain} ELSE al[s]]

\* HashMap::insert / entry().or_default().insert() on the session allowlist
AllowlistInsert(al, session, domain) ==
    IF session \in DOMAIN al
    THEN [al EXCEPT ![session] = @ \cup {to_lowercase(domain)}]
    ELSE [s \in DOMAIN al \cup {session} |->
            IF s = session THEN {to_lowercase(domain)} ELSE al[s]]

\* check_domain with the session's entry consulted first, and an emptied entry
\* taken as a revocation
check_domain_SessionFirst(session, domain) ==
    IF session \in DOMAIN session_allowlist /\ session_allowlist[session] = {}
    THEN "NeedsApproval"
    ELSE IF \/ \E i \in 1..Len(config_allowlist) : matches(config_allowlist[i], domain)
            \/ /\ session \in DOMAIN session_allowlist
               /\ to_lowercase(domain) \in session_allowlist[session]
         THEN "Allow"
         ELSE "NeedsApproval"

\* a check with a deny-list: a session whose entry has been emptied is denied
check_domain_with_DenyList(al, session, domain) ==
    IF \E i \in 1..Len(config_allowlist) : matches(config_allowlist[i], domain)
    THEN "Allow"
    ELSE IF session \in DOMAIN al /\ al[session] = {}
         THEN "Deny"
         ELSE IF /\ session \in DOMAIN al
                 /\ to_lowercase(domain) \in al[session]
              THEN "Allow"
              ELSE "NeedsApproval"

\* the body of check_domain, reading the session allowlist al
check_domain_with(al, session, domain) ==
    IF \E i \in 1..Len(config_allowlist) : matches(config_allowlist[i], domain)
    THEN "Allow"
    ELSE IF /\ session \in DOMAIN al
            /\ to_lowercase(domain) \in al[session]
         THEN "Allow"
         ELSE "NeedsApproval"

\* DomainApprovalManager::check_domain
check_domain(session, domain) ==
    check_domain_with(session_allowlist, session, domain)

\* DomainApprovalManager::pending_requests
pending_requests ==
    { <<id, pending[id].domain, pending[id].session>> : id \in DOMAIN pending }

\* the string form list_trusted_domains renders a config pattern to
render(p) ==
    CASE p.kind = "Exact" -> p.d
      [] p.kind = "WildcardSubdomain" -> <<"*", ".">> \o p.d
      [] p.kind = "Wildcard" -> <<"*">>

Range(f) == {f[i] : i \in DOMAIN f}

\* the orders in which a HashSet may be iterated
Orders(S) ==
    {o \in [1..Cardinality(S) -> S] : \A i, j \in 1..Cardinality(S) : o[i] = o[j] => i = j}

\* the loop of list_trusted_domains: push what the result does not contain yet
RECURSIVE push_missing(_, _)
push_missing(result, ds) ==
    IF ds = <<>> THEN result
    ELSE push_missing(IF Head(ds) \in Range(result) THEN result
                      ELSE Append(result, Head(ds)),
                      Tail(ds))

\* DomainApprovalManager::list_trusted_domains; order is the iteration order
\* of the session's HashSet
list_trusted_domains(session, order) ==
    push_missing([i \in 1..Len(config_allowlist) |-> render(config_allowlist[i])],
                 order)

\* the domains of a session's entry (empty when the entry is absent)
SessionDomains(session) ==
    IF session \in DOMAIN session_allowlist THEN session_allowlist[session] ELSE {}

\* a remove that leaves the entry in the table
MapRemove_Keeps(m, k) == m

\* a map without the key k (HashMap::remove)
MapRemove(m, k) == [j \in DOMAIN m \ {k} |-> m[j]]

\* a map with the key k set to v (HashMap::insert)
MapInsert(m, k, v) == [j \in DOMAIN m \cup {k} |-> IF j = k THEN v ELSE m[j]]

\* uuid::Uuid::new_v4: an id no earlier call returned
new_v4 == next_id

\* oneshot::channel
NewChannel == [value |-> None, tx |-> "held", rx |-> "alive"]

\* a channel both halves of which are gone is freed
Live(chs) ==
    [i \in {j \in DOMAIN chs : chs[j].tx = "held" \/ chs[j].rx = "alive"} |-> chs[i]]

\* create_request handing out the id of an entry already pending for the pair
create_request_Dedups(c, session, domain) ==
    /\ PendingLockFree
    /\ next_id <= MaxRequests
    /\ LET same == {j \in DOMAIN pending :
                      pending[j] = [domain |-> domain, session |-> session]}
           id == IF same = {} THEN new_v4 ELSE CHOOSE j \in same : TRUE
       IN  /\ pending' = MapInsert(pending, id, [domain |-> domain, session |-> session])
           /\ chan' = MapInsert(chan, id, NewChannel)
           /\ conn' = [conn EXCEPT ![c].id = id, ![c].pc = "waiting"]
    /\ next_id' = next_id + 1
    /\ UNCHANGED <<calls, locks, io, run, shutdown, config_allowlist, session_allowlist, resolver, resolves>>

\* create_request storing the domain in lower case
create_request_Lowercased(c, session, domain) ==
    /\ PendingLockFree
    /\ next_id <= MaxRequests
    /\ pending' = MapInsert(pending, new_v4,
                            [domain |-> to_lowercase(domain), session |-> session])
    /\ chan' = MapInsert(chan, new_v4, NewChannel)
    /\ next_id' = next_id + 1
    /\ conn' = [conn EXCEPT ![c].id = new_v4, ![c].pc = "waiting"]
    /\ UNCHANGED <<calls, locks, io, run, shutdown, config_allowlist, session_allowlist, resolver, resolves>>

\* DomainApprovalManager::create_request; c is the calling connection
create_request(c, session, domain) ==
    /\ PendingLockFree
    /\ next_id <= MaxRequests
    /\ pending' = MapInsert(pending, new_v4, [domain |-> domain, session |-> session])
    /\ chan' = MapInsert(chan, new_v4, NewChannel)
    /\ next_id' = next_id + 1
    /\ conn' = [conn EXCEPT ![c].id = new_v4, ![c].pc = "waiting"]
    /\ UNCHANGED <<calls, locks, io, run, shutdown, config_allowlist, session_allowlist, resolver, resolves>>

\* resolve without its insertion
resolve_found_pc_NoInsert(decision) == "send"

\* resolve with its insertion made for every decision but Timeout
resolve_found_pc_DeniedInserts(decision) ==
    IF decision # "Timeout" THEN "insert" ELSE "send"

\* resolve with its insertion made for every decision
resolve_found_pc_AlwaysInserts(decision) == "insert"

\* where resolve goes after it removed the entry of its id
resolve_found_pc(decision) ==
    IF decision = "Approved" THEN "insert" ELSE "send"

\* resolve taking an id the table does not hold for a request of no domain
resolve_remove_Upserts(id, decision) ==
    /\ resolver.pc = "idle"
    /\ pending' = MapRemove(pending, id)
    /\ resolver' = [id |-> id, decision |-> decision,
                    req |-> IF id \in DOMAIN pending THEN pending[id]
                            ELSE IdleResolver.req,
                    pc |-> resolve_found_pc(decision)]
    /\ resolves' = [resolves EXCEPT ![id] = @ + 1]
    /\ UNCHANGED <<calls, locks, io, run, shutdown, config_allowlist, session_allowlist, chan, next_id, conn>>

\* resolve, line 160: take the pending write lock and remove(id)
\* (a call made while another holds the write guard waits for it, so the
\* calls that find an entry run one after another)
resolve_remove(id, decision) ==
    /\ resolver.pc = "idle"
    /\ IF id \in DOMAIN pending
       THEN /\ pending' = MapRemove(pending, id)
            /\ resolver' = [id |-> id, decision |-> decision, req |-> pending[id],
                            pc |-> resolve_found_pc(decision)]
            /\ resolves' = [resolves EXCEPT ![id] = @ + 1]
       ELSE /\ resolver' = [IdleResolver EXCEPT !.id = id, !.decision = decision,
                                                 !.pc = "warn"]
            /\ UNCHANGED <<pending, resolves>>
    /\ UNCHANGED <<calls, locks, io, run, shutdown, config_allowlist, session_allowlist, chan, next_id, conn>>

\* resolve going on to fire the responder without its insertion made
resolve_insert_Skips ==
    /\ resolver.pc = "insert"
    /\ resolver' = [resolver EXCEPT !.pc = "send"]
    /\ UNCHANGED <<calls, locks, io, run, shutdown, config_allowlist, session_allowlist, pending,
                   chan, next_id, resolves, conn>>

\* resolve, lines 169-176: insert the lowercased domain for the session
resolve_insert ==
    /\ resolver.pc = "insert"
    /\ session_allowlist' =
          AllowlistInsert(session_allowlist, resolver.req.session, resolver.req.domain)
    /\ resolver' = [resolver EXCEPT !.pc = "send"]
    /\ UNCHANGED <<calls, locks, io, run, shutdown, config_allowlist, pending, chan, next_id, resolves, conn>>

\* oneshot::Sender::send: consumes the sender; the value is stored unless the
\* receiver is gone
send(ch, decision) ==
    IF ch.rx = "alive"
    THEN [ch EXCEPT !.value = decision, !.tx = "sent"]
    ELSE [ch EXCEPT !.tx = "sent"]

\* resolve firing the responder of every pending request for the same
\* session and domain
resolve_send_Broadcasts ==
    /\ resolver.pc = "send"
    /\ chan' = Live([i \in DOMAIN chan |->
                       IF \/ i = resolver.id
                          \/ i \in DOMAIN pending /\ pending[i] = resolver.req
                       THEN send(chan[i], resolver.decision)
                       ELSE chan[i]])
    /\ resolver' = IdleResolver
    /\ UNCHANGED <<calls, locks, io, run, shutdown, config_allowlist, session_allowlist,
                   pending, next_id, resolves, conn>>

\* resolve, line 177: fire the responder, then drop the write guard
resolve_send ==
    /\ resolver.pc = "send"
    /\ chan' = Live([chan EXCEPT ![resolver.id] = send(@, resolver.decision)])
    /\ resolver' = IdleResolver
    /\ UNCHANGED <<calls, locks, io, run, shutdown, config_allowlist, session_allowlist, pending, next_id,
                   resolves, conn>>

\* resolve, line 180: the id is unknown, warn and return
resolve_warn ==
    /\ resolver.pc = "warn"
    /\ resolver' = IdleResolver
    /\ UNCHANGED <<calls, locks, io, run, shutdown, config_allowlist, session_allowlist, pending, chan, next_id,
                   resolves, conn>>

\* DomainApprovalManager::add_trusted_domain
add_trusted_domain(session, domain) ==
    /\ session_allowlist' = AllowlistInsert(session_allowlist, session, domain)
    /\ UNCHANGED <<calls, locks, io, run, shutdown, config_allowlist, pending, chan, next_id, resolver, resolves, conn>>

\* a removal of the domain as it was passed
AllowlistRemove_Verbatim(al, session, domain) ==
    IF session \in DOMAIN al
    THEN [al EXCEPT ![session] = @ \ {domain}]
    ELSE al

\* if let Some(domains) = get_mut(session) { domains.remove(&lowercased) }
AllowlistRemove(al, session, domain) ==
    IF session \in DOMAIN al
    THEN [al EXCEPT ![session] = @ \ {to_lowercase(domain)}]
    ELSE al

\* DomainApprovalManager::remove_trusted_domain
remove_trusted_domain(session, domain) ==
    /\ session_allowlist' = AllowlistRemove(session_allowlist, session, domain)
    /\ UNCHANGED <<calls, locks, io, run, shutdown, config_allowlist, pending, chan, next_id, resolver, resolves, conn>>

\* a call of pending_requests: takes the read lock, returns pending_requests
PendingRequestsCall ==
    /\ PendingLockFree
    /\ UNCHANGED vars

\* a call of list_trusted_domains: returns list_trusted_domains(session, order)
\* for one iteration order of the session's set
ListTrustedDomainsCall(session) ==
    /\ UNCHANGED vars

\* a call of check: takes the read lock of the session allowlist, returns
\* check_domain(session, domain)
CheckCall(session, domain) ==
    /\ UNCHANGED vars

\* a closed channel reported as a timeout
poll_timeout_ClosedIsTimeout(ch, elapsed) ==
    IF ch.value # None THEN ch.value
    ELSE IF ch.tx = "dropped" THEN "Timeout"
    ELSE IF elapsed THEN "Timeout"
    ELSE None

\* a timeout that is reported whenever no decision is there yet
poll_timeout_Early(ch, elapsed) ==
    IF ch.value # None THEN ch.value
    ELSE IF ch.tx = "dropped" THEN "Denied"
    ELSE "Timeout"

\* the deadline of the timeout polled before the receiver
poll_timeout_DeadlineFirst(ch, elapsed) ==
    IF elapsed THEN "Timeout"
    ELSE IF ch.value # None THEN ch.value
    ELSE IF ch.tx = "dropped" THEN "Denied"
    ELSE None

\* tokio::time::timeout(self.timeout, rx), polled: the receiver is polled
\* first, the deadline after it
poll_timeout(ch, elapsed) ==
    IF ch.value # None THEN ch.value
    ELSE IF ch.tx = "dropped" THEN "Denied"
    ELSE IF elapsed THEN "Timeout"
    ELSE None

\* DomainApprovalManager::wait_for_decision: the decision it returns now, or
\* None while it stays suspended
wait_for_decision(id, elapsed) == poll_timeout(chan[id], elapsed)

----------------------------------------------------------------------------
(* NetworkProxyServer: one handler task per accepted connection *)

CONNECT == <<"C", "O", "N", "N", "E", "C", "T">>

\* run, line 44: TcpListener::bind; ok is whether it succeeds. A failure is
\* returned by run (the ? operator).
run_bind(ok) ==
    /\ run.pc = "bind"
    /\ run' = IF ok THEN [run EXCEPT !.pc = "accept"]
               ELSE [pc |-> "returned", result |-> "Err"]
    /\ UNCHANGED <<calls, locks, io, config_allowlist, session_allowlist, pending, chan, next_id,
                   resolver, resolves, conn, shutdown>>

\* an accept loop that serves one connection at a time
run_accept_Serial(peer) ==
    /\ run.pc = "accept"
    /\ \A k \in Peers : conn[k].pc = "closed"
    /\ conn' = [conn EXCEPT ![peer] = [IdleConn EXCEPT !.pc = "read"]]
    /\ UNCHANGED <<calls, locks, io, config_allowlist, session_allowlist, pending, chan, next_id,
                   resolver, resolves, run, shutdown>>

\* run, lines 49-57: the accept branch of the select yields Ok((stream, peer))
\* and the handler task is spawned; it awaits the request line
run_accept(peer) ==
    /\ run.pc = "accept"
    /\ conn[peer].pc = "closed"
    /\ conn' = [conn EXCEPT ![peer] = [IdleConn EXCEPT !.pc = "read"]]
    /\ UNCHANGED <<calls, locks, io, config_allowlist, session_allowlist, pending, chan, next_id,
                   resolver, resolves, run, shutdown>>

\* run, lines 58-60: the accept branch yields Err: warn, and loop
run_accept_error ==
    /\ run.pc = "accept"
    /\ UNCHANGED vars

\* a shutdown_signal that goes on waiting when changed() fails
shutdown_signal_TrueOnly == shutdown = "true"

\* shutdown_signal: it completes when the value is true, and when changed()
\* fails because the sender is gone
shutdown_signal == shutdown \in {"true", "closed"}

\* a shutdown that aborts the handler tasks
run_shutdown_Cancels ==
    /\ run.pc = "accept"
    /\ shutdown_signal
    /\ run' = [pc |-> "returned", result |-> "Ok"]
    /\ conn' = [c \in Peers |-> Closed(None, FALSE, None)]
    /\ UNCHANGED <<calls, locks, io, config_allowlist, session_allowlist, pending, chan, next_id,
                   resolver, resolves, shutdown>>

\* run, lines 64-69: the shutdown branch of the select completes: break, Ok(())
run_shutdown ==
    /\ run.pc = "accept"
    /\ shutdown_signal
    /\ run' = [pc |-> "returned", result |-> "Ok"]
    /\ UNCHANGED <<calls, locks, io, config_allowlist, session_allowlist, pending, chan, next_id,
                   resolver, resolves, conn, shutdown>>

\* the owner of the watch sender sends true
send_shutdown ==
    /\ shutdown = "false"
    /\ shutdown' = "true"
    /\ UNCHANGED <<calls, locks, io, config_allowlist, session_allowlist, pending, chan, next_id,
                   resolver, resolves, conn, run>>

\* the owner of the watch sender drops it without having sent true
drop_shutdown_sender ==
    /\ shutdown = "false"
    /\ shutdown' = "closed"
    /\ UNCHANGED <<calls, locks, io, config_allowlist, session_allowlist, pending, chan, next_id,
                   resolver, resolves, conn, run>>

\* handle_client_inner reads the request line (parts: its tokens) and
\* dispatches on the method; handle_connect parses the target and consumes the
\* remaining headers (lines 152-161), handle_http_forward extracts the host
\* (line 271).
handle_client(peer, parts) ==
    /\ conn[peer].pc = "read"
    /\ conn' =
         IF Len(parts) < 2
         THEN [conn EXCEPT ![peer] = Closed(None, FALSE, None)]
         ELSE IF eq_ignore_ascii_case(parts[1], CONNECT)
              THEN [conn EXCEPT ![peer] =
                      [IdleConn EXCEPT !.method = "CONNECT",
                                       !.session = peer,
                                       !.domain = parse_host_port_host(parts[2]),
                                       !.pc = "check"]]
              ELSE [conn EXCEPT ![peer] =
                      [IdleConn EXCEPT !.method = "HTTP",
                                       !.session = peer,
                                       !.domain = extract_host_from_url(parts[2]),
                                       !.pc = "check"]]
    /\ UNCHANGED <<calls, locks, io, run, shutdown, config_allowlist, session_allowlist, pending, chan, next_id,
                   resolver, resolves>>

\* the handler's match on the FilterAction
after_check(cn, action) ==
    CASE action = "Allow" -> [cn EXCEPT !.action = action, !.pc = "connect"]
      [] action = "Deny"  -> Closed("403", FALSE, None)
      [] action = "NeedsApproval" ->
                             [cn EXCEPT !.action = action, !.pc = "create_request"]

\* a check that records the domain it allowed in the session's entry
handler_check_Caches(c) ==
    /\ conn[c].pc = "check"
    /\ conn' = [conn EXCEPT ![c] = after_check(@, check_domain(@.session, @.domain))]
    /\ session_allowlist' =
          IF check_domain(conn[c].session, conn[c].domain) = "Allow"
          THEN AllowlistInsert(session_allowlist, conn[c].session, conn[c].domain)
          ELSE session_allowlist
    /\ UNCHANGED <<calls, locks, io, run, shutdown, config_allowlist, pending, chan, next_id,
                   resolver, resolves>>

\* handle_connect 164-167 / handle_http_forward 274-277: filter.check
handler_check(c) ==
    /\ conn[c].pc = "check"
    /\ conn' = [conn EXCEPT ![c] = after_check(@, check_domain(@.session, @.domain))]
    /\ UNCHANGED <<calls, locks, io, run, shutdown, config_allowlist, session_allowlist, pending, chan, next_id,
                   resolver, resolves>>

\* handle_connect 182 / handle_http_forward 291: filter.create_request
handler_create_request(c) ==
    /\ conn[c].pc = "create_request"
    /\ create_request(c, conn[c].session, conn[c].domain)

\* a handler that asks for approval again when the wait timed out
after_decision_Retries(cn, decision) ==
    CASE decision = "Approved" ->
            [cn EXCEPT !.decision = decision, !.id = 0, !.pc = "connect"]
      [] decision = "Timeout" ->
            [cn EXCEPT !.id = 0, !.pc = "create_request"]
      [] OTHER -> Closed("403", FALSE, decision)

\* after_decision with a timed-out wait let through
after_decision_TimeoutProceeds(cn, decision) ==
    IF decision \in {"Approved", "Timeout"}
    THEN [cn EXCEPT !.decision = decision, !.id = 0, !.pc = "connect"]
    ELSE Closed("403", FALSE, decision)

\* the handler's match on the DomainDecision
after_decision(cn, decision) ==
    IF decision = "Approved"
    THEN [cn EXCEPT !.decision = decision, !.id = 0, !.pc = "connect"]
    ELSE Closed("403", FALSE, decision)

\* the channel once wait_for_decision has returned: the receiver is gone, and
\* so is the channel unless the sender is still held
rx_after(ch) ==
    [ch EXCEPT !.value = None,
               !.rx = IF ch.value # None THEN "received" ELSE "dropped"]

\* a wait that takes its request out of the pending table when it times out
handler_wait_Abandons(c, elapsed) ==
    /\ conn[c].pc = "waiting"
    /\ PendingLockFree
    /\ wait_for_decision(conn[c].id, elapsed) # None
    /\ conn' = [conn EXCEPT ![c] =
                  after_decision(@, wait_for_decision(@.id, elapsed))]
    /\ chan' = Live([chan EXCEPT ![conn[c].id] = rx_after(@)])
    /\ pending' = IF wait_for_decision(conn[c].id, elapsed) = "Timeout"
                  THEN MapRemove(pending, conn[c].id)
                  ELSE pending
    /\ UNCHANGED <<calls, locks, io, run, shutdown, config_allowlist, session_allowlist, next_id,
                   resolver, resolves>>

\* handle_connect 184-199 / handle_http_forward 293-308: wait_for_decision
\* returns and the handler matches on the decision; elapsed is whether the
\* approval timeout has elapsed when the wait is polled
handler_wait(c, elapsed) ==
    /\ conn[c].pc = "waiting"
    /\ wait_for_decision(conn[c].id, elapsed) # None
    /\ conn' = [conn EXCEPT ![c] =
                  after_decision(@, wait_for_decision(@.id, elapsed))]
    /\ chan' = Live([chan EXCEPT ![conn[c].id] = rx_after(@)])
    /\ UNCHANGED <<calls, locks, io, run, shutdown, config_allowlist, session_allowlist, pending, next_id,
                   resolver, resolves>>

\* the address the handler connects to: format!("{domain}:{port}")
upstream_host(cn) == cn.domain

\* handle_connect 204-253 / handle_http_forward 313-376: (the HTTP path reads
\* the remaining headers, then) TcpStream::connect to the upstream; ok is
\* whether the connect succeeds. On success the CONNECT path replies 200, the
\* HTTP path forwards the request, and the relay runs to its end.
connect_upstream(c, ok) ==
    /\ conn[c].pc = "connect"
    /\ conn' =
         IF ok
         THEN [conn EXCEPT ![c] =
                 [Closed(IF conn[c].method = "CONNECT" THEN "200" ELSE None,
                         TRUE, None)
                    EXCEPT !.upstream = upstream_host(conn[c])]]
         ELSE [conn EXCEPT ![c] =
                 [Closed("502", TRUE, None)
                    EXCEPT !.upstream = upstream_host(conn[c])]]
    /\ UNCHANGED <<calls, locks, io, run, shutdown, config_allowlist, session_allowlist, pending, chan, next_id,
                   resolver, resolves>>

----------------------------------------------------------------------------
(* NetworkProxyServer: the bytes of one connection *)

\* what a client writes on its connection before it closes its half
ClientScripts ==
    { <<>>,
      <<"G", "E", "T", "\n">>,
      <<" ", "\r", "\n">>,
      <<"C", "o", "n", "n", "e", "c", "t", " ", "A", ":", "8", "\r", "\n",
        "h", ":", "1", "\r", "\n", "\r", "\n", "p", "q">>,
      <<"G", "E", "T", " ", "h", "t", "t", "p", ":", "/", "/", "x", ".", "a",
        ":", "8", "/", "p", " ", "H", "T", "T", "P", "/", "1", ".", "0", "\n",
        "h", ":", "1", "\n", "k", ":", "2", "\n", "\n", "p", "q">>,
      <<"G", "E", "T", " ", "h", "t", "t", "p", ":", "/", "/", "b", "\n",
        "\n">> }

\* what the upstream writes once connected, before it closes its half
UpstreamBytes == <<"y", "z">>

\* str::split_whitespace
RECURSIVE split_whitespace(_)
split_whitespace(s) ==
    LET t == trim_start(s) IN
    IF t = <<>> THEN <<>>
    ELSE LET ws == {i \in 1..Len(t) : IsSpace(t[i])}
             e  == IF ws = {} THEN Len(t) + 1 ELSE Min(ws)
         IN <<SubSeq(t, 1, e - 1)>> \o split_whitespace(SubSeq(t, e, Len(t)))

\* a conversion that forwards the absolute URL as it came
url_to_path_Absolute(url) == url

\* url_to_path
url_to_path(url) ==
    LET a == after_scheme(url) IN
    IF Positions(a, "/") # {}
    THEN SubSeq(a, Min(Positions(a, "/")), Len(a))
    ELSE <<"/">>

\* the BufReader holds a whole line
HasLine(b) == Positions(b, "\n") # {}

\* AsyncBufReadExt::read_line can return: the buffer holds a line terminator,
\* or the socket is at end of file
LineReady(x) == HasLine(x.buf) \/ x.sock = <<>>

\* the String read_line returns
read_line(x) ==
    IF HasLine(x.buf)
    THEN x.line \o SubSeq(x.buf, 1, Min(Positions(x.buf, "\n")))
    ELSE x.line \o x.buf

\* the BufReader once read_line has returned: the line is consumed, what was
\* read past it stays buffered
consumed(x) ==
    [x EXCEPT !.line = <<>>,
              !.buf = IF HasLine(x.buf)
                      THEN SubSeq(x.buf, Min(Positions(x.buf, "\n")) + 1,
                                  Len(x.buf))
                      ELSE <<>>]

\* the handler is inside a read_line call
Reading(c) ==
    \/ conn[c].pc \in {"read", "headers"}
    \/ conn[c].pc = "connect" /\ conn[c].method = "HTTP" /\ ~io[c].headers_done

\* BufReader::fill_buf inside read_line: the buffer holds no line terminator,
\* so read_line takes all of it and the reader reads the socket again; the
\* read returns the next n bytes
fill_buf(c, n) ==
    /\ Reading(c)
    /\ ~HasLine(io[c].buf)
    /\ n \in 1..Len(io[c].sock)
    /\ io' = [io EXCEPT ![c] =
                [@ EXCEPT !.line = @ \o io[c].buf,
                          !.buf = SubSeq(io[c].sock, 1, n),
                          !.sock = SubSeq(io[c].sock, n + 1, Len(io[c].sock))]]
    /\ UNCHANGED <<calls, locks, config_allowlist, session_allowlist, pending, chan, next_id,
                   resolver, resolves, conn, run, shutdown>>

\* a handler that answers a protocol error
bail_BadRequest == Closed("400", FALSE, None)

\* bail!, lines 121-128: the handler returns the error; nothing has been
\* written to the client
bail == Closed(None, FALSE, None)

\* handle_client_inner, lines 116-138: the request line is read, trimmed and
\* split; fewer than two tokens is an error (bail!), otherwise dispatch on
\* the method. handle_connect parses the target (line 152),
\* handle_http_forward extracts the host (line 271).
handle_client_inner(c) ==
    /\ conn[c].pc = "read"
    /\ LineReady(io[c])
    /\ LET request_line == trim_end(read_line(io[c]))
           parts == split_whitespace(request_line)
       IN IF request_line = <<>> \/ Len(parts) < 2
          THEN /\ conn' = [conn EXCEPT ![c] = bail]
               /\ io' = [io EXCEPT ![c] = consumed(@)]
          ELSE /\ conn' =
                    IF eq_ignore_ascii_case(parts[1], CONNECT)
                    THEN [conn EXCEPT ![c] =
                            [IdleConn EXCEPT !.method = "CONNECT",
                                             !.session = c,
                                             !.domain = parse_host_port_host(parts[2]),
                                             !.pc = "headers"]]
                    ELSE [conn EXCEPT ![c] =
                            [IdleConn EXCEPT !.method = "HTTP",
                                             !.session = c,
                                             !.domain = extract_host_from_url(parts[2]),
                                             !.pc = "check"]]
               /\ io' = [io EXCEPT ![c] =
                           [consumed(@) EXCEPT
                               !.verb = parts[1],
                               !.target = parts[2],
                               !.port = IF eq_ignore_ascii_case(parts[1], CONNECT)
                                        THEN parse_host_port_port(parts[2])
                                        ELSE extract_port_from_url(parts[2])]]
    /\ UNCHANGED <<calls, locks, config_allowlist, session_allowlist, pending, chan, next_id,
                   resolver, resolves, run, shutdown>>

\* handle_connect, lines 155-161: one turn of the loop that consumes the
\* remaining request headers; a blank line (or end of file) ends it
consume_header(c) ==
    /\ conn[c].pc = "headers"
    /\ LineReady(io[c])
    /\ conn' = [conn EXCEPT ![c].pc =
                  IF trim(read_line(io[c])) = <<>> THEN "check" ELSE "headers"]
    /\ io' = [io EXCEPT ![c] = consumed(@)]
    /\ UNCHANGED <<calls, locks, config_allowlist, session_allowlist, pending, chan, next_id,
                   resolver, resolves, run, shutdown>>

\* handle_http_forward, lines 313-321: one turn of the loop that reads the
\* remaining headers, after the policy has let the request through
read_header(c) ==
    /\ conn[c].pc = "connect" /\ conn[c].method = "HTTP"
    /\ ~io[c].headers_done
    /\ LineReady(io[c])
    /\ io' = [io EXCEPT ![c] =
                IF trim(read_line(io[c])) = <<>>
                THEN [consumed(@) EXCEPT !.headers_done = TRUE]
                ELSE [consumed(@) EXCEPT !.headers = @ \o read_line(io[c])]]
    /\ UNCHANGED <<calls, locks, config_allowlist, session_allowlist, pending, chan, next_id,
                   resolver, resolves, conn, run, shutdown>>

\* a handler that checks the policy again before it connects, and answers
\* 403 when the domain is no longer allowed
TcpStream_connect_Rechecks(c, ok) ==
    /\ conn[c].pc = "connect"
    /\ conn[c].method = "CONNECT" \/ io[c].headers_done
    /\ conn' = IF check_domain(conn[c].session, conn[c].domain) # "Allow"
               THEN [conn EXCEPT ![c] = Closed("403", FALSE, None)]
               ELSE IF ok
               THEN [conn EXCEPT ![c] = [@ EXCEPT !.pc = "connected",
                                                   !.attempted = TRUE,
                                                   !.upstream = upstream_host(conn[c])]]
               ELSE [conn EXCEPT ![c] =
                       [Closed("502", TRUE, None)
                          EXCEPT !.upstream = upstream_host(conn[c])]]
    /\ io' = IF check_domain(conn[c].session, conn[c].domain) # "Allow"
             THEN io
             ELSE IF ok
             THEN [io EXCEPT ![c] = [@ EXCEPT !.upstream = "open",
                                              !.usock = UpstreamBytes]]
             ELSE [io EXCEPT ![c] = [@ EXCEPT !.upstream = "failed"]]
    /\ UNCHANGED <<calls, locks, config_allowlist, session_allowlist, pending, chan, next_id,
                   resolver, resolves, run, shutdown>>

\* handle_connect 204-214 / handle_http_forward 324-334: TcpStream::connect;
\* ok is whether it succeeds. A failure is answered 502 and ends the handler.
TcpStream_connect(c, ok) ==
    /\ conn[c].pc = "connect"
    /\ conn[c].method = "CONNECT" \/ io[c].headers_done
    /\ conn' = IF ok
               THEN [conn EXCEPT ![c] = [@ EXCEPT !.pc = "connected",
                                                   !.attempted = TRUE,
                                                   !.upstream = upstream_host(conn[c])]]
               ELSE [conn EXCEPT ![c] =
                       [Closed("502", TRUE, None)
                          EXCEPT !.upstream = upstream_host(conn[c])]]
    /\ io' = IF ok
             THEN [io EXCEPT ![c] = [@ EXCEPT !.upstream = "open",
                                              !.usock = UpstreamBytes]]
             ELSE [io EXCEPT ![c] = [@ EXCEPT !.upstream = "failed"]]
    /\ UNCHANGED <<calls, locks, config_allowlist, session_allowlist, pending, chan, next_id,
                   resolver, resolves, run, shutdown>>

\* a handler that starts the relay without the 200 reply
write_established_Silent(c) ==
    /\ conn[c].pc = "connected" /\ conn[c].method = "CONNECT"
    /\ conn' = [conn EXCEPT ![c] = [@ EXCEPT !.pc = "relay"]]
    /\ io' = [io EXCEPT ![c] = [@ EXCEPT !.buf = <<>>]]
    /\ UNCHANGED <<calls, locks, config_allowlist, session_allowlist, pending, chan, next_id,
                   resolver, resolves, run, shutdown>>

\* handle_connect, lines 217-223: the 200 reply is written to the client;
\* reader.into_inner() then gives the socket back and the BufReader, with
\* whatever it still holds, is dropped
write_established(c) ==
    /\ conn[c].pc = "connected" /\ conn[c].method = "CONNECT"
    /\ conn' = [conn EXCEPT ![c] = [@ EXCEPT !.response = "200", !.pc = "relay"]]
    /\ io' = [io EXCEPT ![c] = [@ EXCEPT !.buf = <<>>]]
    /\ UNCHANGED <<calls, locks, config_allowlist, session_allowlist, pending, chan, next_id,
                   resolver, resolves, run, shutdown>>

\* handle_http_forward, lines 337-341: what is written to the upstream
\* before the relay: format!("{method} {path} HTTP/1.1\r\n"), the headers
\* String, and b"\r\n"
request_head(x) ==
    x.verb \o <<" ">> \o url_to_path(x.target)
           \o <<" ", "H", "T", "T", "P", "/", "1", ".", "1", "\r", "\n">>
           \o x.headers \o <<"\r", "\n">>

\* handle_http_forward, lines 337-346: the rewritten request line, the
\* captured headers and a blank line are written to the upstream; then
\* reader.into_inner(), as above
write_request(c) ==
    /\ conn[c].pc = "connected" /\ conn[c].method = "HTTP"
    /\ conn' = [conn EXCEPT ![c] = [@ EXCEPT !.pc = "relay"]]
    /\ io' = [io EXCEPT ![c] =
                [@ EXCEPT !.up = request_head(io[c]), !.buf = <<>>]]
    /\ UNCHANGED <<calls, locks, config_allowlist, session_allowlist, pending, chan, next_id,
                   resolver, resolves, run, shutdown>>

\* tokio::io::copy(client_read, upstream_write): one read of the client's
\* socket, of n bytes, written to the upstream
copy_c2u(c, n) ==
    /\ conn[c].pc = "relay"
    /\ ~io[c].c2u_failed
    /\ n \in 1..Len(io[c].sock)
    /\ io' = [io EXCEPT ![c] =
                [@ EXCEPT !.up = @ \o SubSeq(io[c].sock, 1, n),
                          !.sock = SubSeq(io[c].sock, n + 1, Len(io[c].sock))]]
    /\ UNCHANGED <<calls, locks, config_allowlist, session_allowlist, pending, chan, next_id,
                   resolver, resolves, conn, run, shutdown>>

\* tokio::io::copy(upstream_read, client_write): one read of the upstream's
\* socket, of n bytes, written to the client
copy_u2c(c, n) ==
    /\ conn[c].pc = "relay"
    /\ ~io[c].u2c_failed
    /\ n \in 1..Len(io[c].usock)
    /\ io' = [io EXCEPT ![c] =
                [@ EXCEPT !.down = @ \o SubSeq(io[c].usock, 1, n),
                          !.usock = SubSeq(io[c].usock, n + 1, Len(io[c].usock))]]
    /\ UNCHANGED <<calls, locks, config_allowlist, session_allowlist, pending, chan, next_id,
                   resolver, resolves, conn, run, shutdown>>

\* tokio::io::copy(client_read, upstream_write) returns Err: a read of the
\* client's socket or a write to the upstream fails
copy_c2u_error(c) ==
    /\ conn[c].pc = "relay"
    /\ ~io[c].c2u_failed
    /\ io[c].sock # <<>>
    /\ io' = [io EXCEPT ![c] = [@ EXCEPT !.c2u_failed = TRUE]]
    /\ UNCHANGED <<calls, locks, config_allowlist, session_allowlist, pending, chan, next_id,
                   resolver, resolves, conn, run, shutdown>>

\* tokio::io::copy(upstream_read, client_write) returns Err
copy_u2c_error(c) ==
    /\ conn[c].pc = "relay"
    /\ ~io[c].u2c_failed
    /\ io[c].usock # <<>>
    /\ io' = [io EXCEPT ![c] = [@ EXCEPT !.u2c_failed = TRUE]]
    /\ UNCHANGED <<calls, locks, config_allowlist, session_allowlist, pending, chan, next_id,
                   resolver, resolves, conn, run, shutdown>>

\* the client-to-upstream copy has returned: Ok at end of file, or Err
c2u_finished(x) == x.sock = <<>> \/ x.c2u_failed

\* the upstream-to-client copy has returned
u2c_finished(x) == x.usock = <<>> \/ x.u2c_failed

\* a handler that returns as soon as one of the copies has
join_Either(c) ==
    /\ conn[c].pc = "relay"
    /\ c2u_finished(io[c]) \/ u2c_finished(io[c])
    /\ conn' = [conn EXCEPT ![c] =
                  [Closed(conn[c].response, TRUE, None)
                     EXCEPT !.upstream = conn[c].upstream]]
    /\ UNCHANGED <<calls, locks, config_allowlist, session_allowlist, pending, chan, next_id,
                   resolver, resolves, run, shutdown, io>>

\* tokio::join!(c2u, u2c) completes: both copies have returned; the handler
\* returns
join(c) ==
    /\ conn[c].pc = "relay"
    /\ c2u_finished(io[c]) /\ u2c_finished(io[c])
    /\ conn' = [conn EXCEPT ![c] =
                  [Closed(conn[c].response, TRUE, None)
                     EXCEPT !.upstream = conn[c].upstream]]
    /\ UNCHANGED <<calls, locks, config_allowlist, session_allowlist, pending, chan, next_id,
                   resolver, resolves, run, shutdown, io>>

----------------------------------------------------------------------------
(* Specification *)

\* the domains the approver passes to add_trusted_domain / remove_trusted_domain
TrustDomains == { <<"A">> }

Next ==
    \/ \E ok \in BOOLEAN : run_bind(ok)
    \/ \E peer \in Peers : run_accept(peer)
    \/ run_accept_error
    \/ \E peer \in Peers, parts \in RequestLines : handle_client(peer, parts)
    \/ \E c \in Peers : handler_check(c)
    \/ \E c \in Peers : handler_create_request(c)
    \/ \E c \in Peers, elapsed \in BOOLEAN : handler_wait(c, elapsed)
    \/ \E c \in Peers, ok \in BOOLEAN : connect_upstream(c, ok)
    \/ \E id \in Ids, decision \in Decisions : resolve_remove(id, decision)
    \/ resolve_insert
    \/ resolve_send
    \/ resolve_warn
    \/ \E s \in Peers, d \in TrustDomains : add_trusted_domain(s, d)
    \/ \E s \in Peers, d \in TrustDomains : remove_trusted_domain(s, d)
    \/ PendingRequestsCall
    \/ \E s \in Peers : ListTrustedDomainsCall(s)

Spec == Init /\ [][Next]_vars

\* the handler task polls its wait again once the timeout has elapsed
FairSpec ==
    Spec /\ \A c \in Peers : WF_vars(handler_wait(c, TRUE))

\* the states of a one-shot channel whose receiver wait_for_decision is given:
\* nothing sent yet, a decision sent, the sender dropped without sending
ChannelStates ==
    {NewChannel, [NewChannel EXCEPT !.tx = "dropped"]}
       \cup {[NewChannel EXCEPT !.value = d, !.tx = "sent"] : d \in Decisions}

\* the handler of a connection from peer c calls wait_for_decision on a
\* receiver in any state of its channel; the request is in the pending
\* table while its sender is held
ChannelInit ==
    /\ \E allowed_domains \in AllowedDomainsChoices : new(allowed_domains)
    /\ \E c \in Peers, cn \in {[IdleConn EXCEPT !.method = "CONNECT",
                                                 !.domain = <<"A">>],
                                [IdleConn EXCEPT !.method = "HTTP",
                                                 !.domain = <<"x", ".", "a">>]},
          ch \in ChannelStates :
          /\ conn = [k \in Peers |->
                        IF k = c
                        THEN [cn EXCEPT !.session = c, !.action = "NeedsApproval",
                                        !.id = 1, !.pc = "waiting"]
                        ELSE IdleConn]
          /\ chan = <<ch>>
          /\ pending = IF ch.tx = "held"
                       THEN <<[domain |-> cn.domain, session |-> c]>>
                       ELSE <<>>
          /\ resolves = [i \in Ids |-> IF i = 1 /\ ch.tx = "sent" THEN 1 ELSE 0]
    /\ session_allowlist \in {<<>>}
    /\ next_id = 2
    /\ resolver = IdleResolver
    /\ run = [pc |-> "accept", result |-> None]
    /\ shutdown = "false"
    /\ calls = [t \in Tasks |-> NoCall]
    /\ locks = [name \in LockNames |-> FreeLock]
    /\ io = [c \in Peers |-> IdleIo]

\* the bound server, its handlers and the approver, from there on
ChannelNext ==
    \/ \E peer \in Peers : run_accept(peer)
    \/ run_accept_error
    \/ \E peer \in Peers, parts \in RequestLines : handle_client(peer, parts)
    \/ \E c \in Peers : handler_check(c)
    \/ \E c \in Peers : handler_create_request(c)
    \/ \E c \in Peers, elapsed \in BOOLEAN : handler_wait(c, elapsed)
    \/ \E c \in Peers, ok \in BOOLEAN : connect_upstream(c, ok)
    \/ \E id \in Ids, decision \in Decisions : resolve_remove(id, decision)
    \/ resolve_insert
    \/ resolve_send
    \/ resolve_warn

ChannelSpec == ChannelInit /\ [][ChannelNext]_vars

\* the server's life from bind to return: run, the handler tasks, the
\* approver's resolve calls and the owner of the shutdown channel (the
\* approver's edits of the trust lists touch neither run nor a handler)
RunNext ==
    \/ \E ok \in BOOLEAN : run_bind(ok)
    \/ \E peer \in Peers : run_accept(peer)
    \/ run_accept_error
    \/ \E peer \in Peers, parts \in RequestLines : handle_client(peer, parts)
    \/ \E c \in Peers : handler_check(c)
    \/ \E c \in Peers : handler_create_request(c)
    \/ \E c \in Peers, elapsed \in BOOLEAN : handler_wait(c, elapsed)
    \/ \E c \in Peers, ok \in BOOLEAN : connect_upstream(c, ok)
    \/ \E id \in Ids, decision \in Decisions : resolve_remove(id, decision)
    \/ resolve_insert
    \/ resolve_send
    \/ resolve_warn
    \/ send_shutdown
    \/ drop_shutdown_sender
    \/ run_shutdown

RunSpec == Init /\ [][RunNext]_vars

\* the handler of a connection from peer c has been spawned; the client
\* writes one of the scripts
TunnelInit ==
    /\ \E allowed_domains \in AllowedDomainsChoices : new(allowed_domains)
    /\ \E c \in Peers, script \in ClientScripts :
          /\ conn = [k \in Peers |->
                        IF k = c THEN [IdleConn EXCEPT !.pc = "read"] ELSE IdleConn]
          /\ io = [k \in Peers |->
                      IF k = c THEN [IdleIo EXCEPT !.script = script,
                                                   !.sock = script]
                      ELSE IdleIo]
    /\ chan = <<>>
    /\ next_id = 1
    /\ resolver = IdleResolver
    /\ resolves = [i \in Ids |-> 0]
    /\ run = [pc |-> "accept", result |-> None]
    /\ shutdown = "false"
    /\ calls = [t \in Tasks |-> NoCall]
    /\ locks = [name \in LockNames |-> FreeLock]

\* that handler, read by read and write by write, and the approver
TunnelNext ==
    \/ \E c \in Peers : \E n \in 1..Len(io[c].sock) : fill_buf(c, n)
    \/ \E c \in Peers : handle_client_inner(c)
    \/ \E c \in Peers : consume_header(c)
    \/ \E c \in Peers : handler_check(c)
    \/ \E c \in Peers : handler_create_request(c)
    \/ \E c \in Peers, elapsed \in BOOLEAN : handler_wait(c, elapsed)
    \/ \E c \in Peers : read_header(c)
    \/ \E c \in Peers, ok \in BOOLEAN : TcpStream_connect(c, ok)
    \/ \E c \in Peers : write_established(c)
    \/ \E c \in Peers : write_request(c)
    \/ \E c \in Peers : \E n \in 1..Len(io[c].sock) : copy_c2u(c, n)
    \/ \E c \in Peers : \E n \in 1..Len(io[c].usock) : copy_u2c(c, n)
    \/ \E c \in Peers : join(c)
    \/ \E id \in Ids, decision \in Decisions : resolve_remove(id, decision)
    \/ resolve_insert
    \/ resolve_send
    \/ resolve_warn

TunnelSpec == TunnelInit /\ [][TunnelNext]_vars

\* the same, with socket errors in the relay
RelayNext ==
    \/ TunnelNext
    \/ \E c \in Peers : copy_c2u_error(c)
    \/ \E c \in Peers : copy_u2c_error(c)

RelaySpec == TunnelInit /\ [][RelayNext]_vars

\* the handler and its relay, with domains trusted and revoked meanwhile for
\* the session of the connection
RevokeNext ==
    \/ TunnelNext
    \/ \E s \in Peers, d \in TrustDomains :
          conn[s].pc # "closed" /\ add_trusted_domain(s, d)
    \/ \E s \in Peers, d \in TrustDomains :
          conn[s].pc # "closed" /\ remove_trusted_domain(s, d)

RevokeSpec == TunnelInit /\ [][RevokeNext]_vars

\* the targets of the CONNECT requests clients send
TargetStrings ==
    { <<"A", ":", "8">>,
      <<"A">>,
      <<"A", ":">>,
      <<"A", ":", "x">>,
      <<"A", ":", "6", "5", "5", "3", "5">>,
      <<"A", ":", "6", "5", "5", "3", "6">>,
      <<"a", ":", "b", ":", "8", "0">>,
      <<"A", ":", "-", "1">>,
      <<"A", ":", "+", "8">>,
      <<"A", ":", "+">>,
      <<"b", ":", "0", "8", "0">> }

\* what a client that asks for a tunnel to the target writes
ConnectScript(target) ==
    <<"C", "O", "N", "N", "E", "C", "T", " ">> \o target
        \o <<"\r", "\n", "\r", "\n", "p">>

\* the handler of a connection from peer c has been spawned; the client asks
\* for a tunnel to one of the targets
TargetInit ==
    /\ \E allowed_domains \in AllowedDomainsChoices : new(allowed_domains)
    /\ \E c \in Peers, target \in TargetStrings :
          /\ conn = [k \in Peers |->
                        IF k = c THEN [IdleConn EXCEPT !.pc = "read"] ELSE IdleConn]
          /\ io = [k \in Peers |->
                      IF k = c THEN [IdleIo EXCEPT !.script = ConnectScript(target),
                                                   !.sock = ConnectScript(target)]
                      ELSE IdleIo]
    /\ chan = <<>>
    /\ next_id = 1
    /\ resolver = IdleResolver
    /\ resolves = [i \in Ids |-> 0]
    /\ run = [pc |-> "accept", result |-> None]
    /\ shutdown = "false"
    /\ calls = [t \in Tasks |-> NoCall]
    /\ locks = [name \in LockNames |-> FreeLock]

\* the steps of handle_client_inner and handle_connect, and the approver
TargetNext ==
    \/ \E c \in Peers : \E n \in 1..Len(io[c].sock) : fill_buf(c, n)
    \/ \E c \in Peers : handle_client_inner(c)
    \/ \E c \in Peers : consume_header(c)
    \/ \E c \in Peers : handler_check(c)
    \/ \E c \in Peers : handler_create_request(c)
    \/ \E c \in Peers, elapsed \in BOOLEAN : handler_wait(c, elapsed)
    \/ \E c \in Peers, ok \in BOOLEAN : TcpStream_connect(c, ok)
    \/ \E c \in Peers : write_established(c)
    \/ \E c \in Peers : \E n \in 1..Len(io[c].sock) : copy_c2u(c, n)
    \/ \E c \in Peers : \E n \in 1..Len(io[c].usock) : copy_u2c(c, n)
    \/ \E c \in Peers : join(c)
    \/ \E id \in Ids, decision \in Decisions : resolve_remove(id, decision)
    \/ resolve_insert
    \/ resolve_send
    \/ resolve_warn

TargetSpec == TargetInit /\ [][TargetNext]_vars

\* the entries of an allowed_domains list, as written in the configuration
RawPatterns ==
    { <<"*">>, <<"*", ".", "X", ".", "a">>, <<"*", ".", "b">>, <<" ", "A">>,
      <<"a">>, <<"b">> }

\* the allowed_domains lists of one or two entries
PatternLists ==
    {<<p>> : p \in RawPatterns} \cup {<<p, q>> : p \in RawPatterns, q \in RawPatterns}

\* the domains the manager's callers pass to it
ManagerDomains ==
    { <<"A">>, <<"x", ".", "a">>, <<"B">>, <<"z", "x", ".", "a">> }

\* a manager constructed from any of the lists, no proxy connection yet
ManagerInit ==
    /\ \E allowed_domains \in PatternLists : new(allowed_domains)
    /\ chan = <<>>
    /\ next_id = 1
    /\ resolver = IdleResolver
    /\ resolves = [i \in Ids |-> 0]
    /\ conn = [c \in Peers |-> IdleConn]
    /\ run = [pc |-> "bind", result |-> None]
    /\ shutdown = "false"
    /\ calls = [t \in Tasks |-> NoCall]
    /\ locks = [name \in LockNames |-> FreeLock]
    /\ io = [c \in Peers |-> IdleIo]

\* the manager's calls that need no pending request
ManagerNext ==
    \/ \E s \in Peers, d \in ManagerDomains : add_trusted_domain(s, d)
    \/ \E s \in Peers, d \in ManagerDomains : remove_trusted_domain(s, d)
    \/ \E s \in Peers, d \in ManagerDomains : CheckCall(s, d)
    \/ \E s \in Peers : ListTrustedDomainsCall(s)

ManagerSpec == ManagerInit /\ [][ManagerNext]_vars

\* run is polled: it binds, and its select takes the shutdown branch once that
\* stays ready; the handler tasks go on being polled
FairRunSpec ==
    /\ RunSpec
    /\ WF_vars(\E ok \in BOOLEAN : run_bind(ok))
    /\ WF_vars(run_shutdown)
    /\ \A c \in Peers : WF_vars(handler_wait(c, TRUE))

----------------------------------------------------------------------------
(* DomainApprovalManager: the guards of its two RwLocks *)

\* the task holds a guard of the lock
Holds(t, name) == locks[name].writer = t \/ t \in locks[name].readers

\* RwLock::read / RwLock::write, first poll: the task joins the lock's queue
enqueue(lks, t, name, mode) ==
    [lks EXCEPT ![name].queue = Append(@, [task |-> t, mode |-> mode])]

\* the task's guard of the lock is dropped
release(lks, t, name) ==
    [lks EXCEPT ![name].writer = IF @ = t THEN None ELSE @,
                ![name].readers = @ \ {t}]

\* what a call leaves alone besides the manager's tables and locks
ProxyUnchanged == UNCHANGED <<config_allowlist, resolver, resolves, conn, run, shutdown, io>>

\* RwLock::read / RwLock::write resolve: the lock is fair, the first of the
\* queue gets its guard once no writer holds the lock and, for a write guard,
\* no reader does
RwLock_acquire(t) ==
    /\ calls[t].waits \in LockNames
    /\ LET name == calls[t].waits
           l == locks[name]
       IN /\ l.queue # <<>>
          /\ Head(l.queue).task = t
          /\ l.writer = None
          /\ Head(l.queue).mode = "write" => l.readers = {}
          /\ locks' = [locks EXCEPT ![name] =
                         [writer |-> IF Head(l.queue).mode = "write" THEN t ELSE None,
                          readers |-> IF Head(l.queue).mode = "read"
                                      THEN l.readers \cup {t} ELSE l.readers,
                          queue |-> Tail(l.queue)]]
    /\ calls' = [calls EXCEPT ![t].waits = None]
    /\ UNCHANGED <<session_allowlist, pending, chan, next_id>>
    /\ ProxyUnchanged

\* check_domain, lines 110-119: a config pattern matches and the call returns
\* Allow with no lock taken, or the call asks for the session read guard
call_check_domain(t, session, domain) ==
    /\ calls[t].op = None
    /\ IF check_domain_with(<<>>, session, domain) = "Allow"
       THEN UNCHANGED <<calls, locks>>
       ELSE /\ calls' = [calls EXCEPT ![t] =
                           [NoCall EXCEPT !.op = "check_domain",
                                          !.waits = "session_allowlist",
                                          !.session = session, !.domain = domain]]
            /\ locks' = enqueue(locks, t, "session_allowlist", "read")
    /\ UNCHANGED <<session_allowlist, pending, chan, next_id>>
    /\ ProxyUnchanged

\* check_domain, lines 120-130: under the read guard, look the domain up and
\* return check_domain(session, domain); the guard is dropped
check_domain_return(t) ==
    /\ calls[t].op = "check_domain"
    /\ calls[t].waits = None
    /\ locks' = release(locks, t, "session_allowlist")
    /\ calls' = [calls EXCEPT ![t] = NoCall]
    /\ UNCHANGED <<session_allowlist, pending, chan, next_id>>
    /\ ProxyUnchanged

\* create_request, lines 141-145: a fresh id and channel, then ask for the
\* pending write guard
call_create_request(t, session, domain) ==
    /\ calls[t].op = None
    /\ next_id <= MaxRequests
    /\ chan' = MapInsert(chan, new_v4, NewChannel)
    /\ next_id' = next_id + 1
    /\ calls' = [calls EXCEPT ![t] =
                    [NoCall EXCEPT !.op = "create_request", !.waits = "pending",
                                   !.id = new_v4,
                                   !.session = session, !.domain = domain]]
    /\ locks' = enqueue(locks, t, "pending", "write")
    /\ UNCHANGED <<session_allowlist, pending>>
    /\ ProxyUnchanged

\* create_request, lines 146-153: insert under the write guard, drop it
create_request_insert(t) ==
    /\ calls[t].op = "create_request"
    /\ calls[t].waits = None
    /\ pending' = MapInsert(pending, calls[t].id,
                            [domain |-> calls[t].domain, session |-> calls[t].session])
    /\ locks' = release(locks, t, "pending")
    /\ calls' = [calls EXCEPT ![t] = NoCall]
    /\ UNCHANGED <<session_allowlist, chan, next_id>>
    /\ ProxyUnchanged

\* resolve, line 160: ask for the pending write guard
call_resolve(t, id, decision) ==
    /\ calls[t].op = None
    /\ calls' = [calls EXCEPT ![t] =
                    [NoCall EXCEPT !.op = "resolve", !.pc = "remove",
                                   !.waits = "pending",
                                   !.id = id, !.decision = decision]]
    /\ locks' = enqueue(locks, t, "pending", "write")
    /\ UNCHANGED <<session_allowlist, pending, chan, next_id>>
    /\ ProxyUnchanged

\* resolve, lines 160-171: remove(id) under the pending write guard; when the
\* entry was there the guard is kept, and for Approved the session write guard
\* is asked for; when it was not, warn and return
resolve_pending_locked(t) ==
    /\ calls[t].op = "resolve"
    /\ calls[t].pc = "remove"
    /\ calls[t].waits = None
    /\ IF calls[t].id \in DOMAIN pending
       THEN /\ pending' = MapRemove(pending, calls[t].id)
            /\ calls' = [calls EXCEPT
                           ![t].req = pending[calls[t].id],
                           ![t].pc = resolve_found_pc(calls[t].decision),
                           ![t].waits =
                               IF resolve_found_pc(calls[t].decision) = "insert"
                               THEN "session_allowlist" ELSE None]
            /\ locks' = IF resolve_found_pc(calls[t].decision) = "insert"
                        THEN enqueue(locks, t, "session_allowlist", "write")
                        ELSE locks
       ELSE /\ pending' = pending
            /\ calls' = [calls EXCEPT ![t] = NoCall]
            /\ locks' = release(locks, t, "pending")
    /\ UNCHANGED <<session_allowlist, chan, next_id>>
    /\ ProxyUnchanged

\* resolve, lines 169-176: insert under the session write guard, drop it
resolve_session_locked(t) ==
    /\ calls[t].op = "resolve"
    /\ calls[t].pc = "insert"
    /\ calls[t].waits = None
    /\ session_allowlist' =
          AllowlistInsert(session_allowlist, calls[t].req.session, calls[t].req.domain)
    /\ locks' = release(locks, t, "session_allowlist")
    /\ calls' = [calls EXCEPT ![t].pc = "send"]
    /\ UNCHANGED <<pending, chan, next_id>>
    /\ ProxyUnchanged

\* resolve, lines 177-179: fire the responder; the pending write guard is
\* dropped at the end of the branch
resolve_fire(t) ==
    /\ calls[t].op = "resolve"
    /\ calls[t].pc = "send"
    /\ chan' = Live([chan EXCEPT ![calls[t].id] = send(@, calls[t].decision)])
    /\ locks' = release(locks, t, "pending")
    /\ calls' = [calls EXCEPT ![t] = NoCall]
    /\ UNCHANGED <<session_allowlist, pending, next_id>>
    /\ ProxyUnchanged

\* pending_requests, lines 210-212: ask for the pending read guard
call_pending_requests(t) ==
    /\ calls[t].op = None
    /\ calls' = [calls EXCEPT ![t] =
                    [NoCall EXCEPT !.op = "pending_requests", !.waits = "pending"]]
    /\ locks' = enqueue(locks, t, "pending", "read")
    /\ UNCHANGED <<session_allowlist, pending, chan, next_id>>
    /\ ProxyUnchanged

\* pending_requests, lines 213-215: collect under the read guard, drop it
pending_requests_return(t) ==
    /\ calls[t].op = "pending_requests"
    /\ calls[t].waits = None
    /\ locks' = release(locks, t, "pending")
    /\ calls' = [calls EXCEPT ![t] = NoCall]
    /\ UNCHANGED <<session_allowlist, pending, chan, next_id>>
    /\ ProxyUnchanged

\* add_trusted_domain, lines 220-222: ask for the session write guard
call_add_trusted_domain(t, session, domain) ==
    /\ calls[t].op = None
    /\ calls' = [calls EXCEPT ![t] =
                    [NoCall EXCEPT !.op = "add_trusted_domain",
                                   !.waits = "session_allowlist",
                                   !.session = session, !.domain = domain]]
    /\ locks' = enqueue(locks, t, "session_allowlist", "write")
    /\ UNCHANGED <<session_allowlist, pending, chan, next_id>>
    /\ ProxyUnchanged

\* add_trusted_domain, lines 223-225: insert under the write guard, drop it
add_trusted_domain_insert(t) ==
    /\ calls[t].op = "add_trusted_domain"
    /\ calls[t].waits = None
    /\ session_allowlist' =
          AllowlistInsert(session_allowlist, calls[t].session, calls[t].domain)
    /\ locks' = release(locks, t, "session_allowlist")
    /\ calls' = [calls EXCEPT ![t] = NoCall]
    /\ UNCHANGED <<pending, chan, next_id>>
    /\ ProxyUnchanged

\* remove_trusted_domain, line 230: ask for the session write guard
call_remove_trusted_domain(t, session, domain) ==
    /\ calls[t].op = None
    /\ calls' = [calls EXCEPT ![t] =
                    [NoCall EXCEPT !.op = "remove_trusted_domain",
                                   !.waits = "session_allowlist",
                                   !.session = session, !.domain = domain]]
    /\ locks' = enqueue(locks, t, "session_allowlist", "write")
    /\ UNCHANGED <<session_allowlist, pending, chan, next_id>>
    /\ ProxyUnchanged

\* remove_trusted_domain, lines 230-232: remove under the write guard, drop it
remove_trusted_domain_remove(t) ==
    /\ calls[t].op = "remove_trusted_domain"
    /\ calls[t].waits = None
    /\ session_allowlist' =
          AllowlistRemove(session_allowlist, calls[t].session, calls[t].domain)
    /\ locks' = release(locks, t, "session_allowlist")
    /\ calls' = [calls EXCEPT ![t] = NoCall]
    /\ UNCHANGED <<pending, chan, next_id>>
    /\ ProxyUnchanged

\* list_trusted_domains, lines 237-247: render the config patterns, then ask
\* for the session read guard
call_list_trusted_domains(t, session) ==
    /\ calls[t].op = None
    /\ calls' = [calls EXCEPT ![t] =
                    [NoCall EXCEPT !.op = "list_trusted_domains",
                                   !.waits = "session_allowlist",
                                   !.session = session]]
    /\ locks' = enqueue(locks, t, "session_allowlist", "read")
    /\ UNCHANGED <<session_allowlist, pending, chan, next_id>>
    /\ ProxyUnchanged

\* a list_trusted_domains that, with the session read guard still out, goes
\* on to read the pending table
list_trusted_domains_return_ReadsPending(t) ==
    /\ calls[t].op = "list_trusted_domains"
    /\ calls[t].waits = None
    /\ IF Holds(t, "pending")
       THEN /\ locks' = release(release(locks, t, "session_allowlist"), t, "pending")
            /\ calls' = [calls EXCEPT ![t] = NoCall]
       ELSE /\ locks' = enqueue(locks, t, "pending", "read")
            /\ calls' = [calls EXCEPT ![t].waits = "pending"]
    /\ UNCHANGED <<session_allowlist, pending, chan, next_id>>
    /\ ProxyUnchanged

\* list_trusted_domains, lines 247-254: push the session's domains under the
\* read guard, drop it
list_trusted_domains_return(t) ==
    /\ calls[t].op = "list_trusted_domains"
    /\ calls[t].waits = None
    /\ locks' = release(locks, t, "session_allowlist")
    /\ calls' = [calls EXCEPT ![t] = NoCall]
    /\ UNCHANGED <<session_allowlist, pending, chan, next_id>>
    /\ ProxyUnchanged

\* a task goes on with the call it is in
Poll(t) ==
    \/ RwLock_acquire(t)
    \/ check_domain_return(t)
    \/ create_request_insert(t)
    \/ resolve_pending_locked(t)
    \/ resolve_session_locked(t)
    \/ resolve_fire(t)
    \/ pending_requests_return(t)
    \/ add_trusted_domain_insert(t)
    \/ remove_trusted_domain_remove(t)
    \/ list_trusted_domains_return(t)

\* the sessions, domains and decisions the tasks call the manager with
LockSessions == {"10.0.0.2:5001"}
LockDecisions == {"Approved", "Denied"}
LockCheckDomains == { <<"A">>, <<"b">> }

\* a manager that allows b and the subdomains of x.a, with one request
\* pending; no task is in a call
LockInit ==
    /\ config_allowlist = <<parse(<<"b">>), parse(<<"*", ".", "X", ".", "a">>)>>
    /\ session_allowlist = <<>>
    /\ \E s \in LockSessions, d \in TrustDomains :
          pending = <<[domain |-> d, session |-> s]>>
    /\ chan = <<NewChannel>>
    /\ next_id = 2
    /\ resolver = IdleResolver
    /\ resolves = [i \in Ids |-> 0]
    /\ conn = [c \in Peers |-> IdleConn]
    /\ run = [pc |-> "bind", result |-> None]
    /\ shutdown = "false"
    /\ io = [c \in Peers |-> IdleIo]
    /\ calls = [t \in Tasks |-> NoCall]
    /\ locks = [name \in LockNames |-> FreeLock]

\* a manager, and tasks that call its operations concurrently
LockNext ==
    \/ \E t \in Tasks, s \in LockSessions, d \in LockCheckDomains : call_check_domain(t, s, d)
    \/ \E t \in Tasks, s \in LockSessions, d \in TrustDomains : call_create_request(t, s, d)
    \/ \E t \in Tasks, id \in Ids, decision \in LockDecisions : call_resolve(t, id, decision)
    \/ \E t \in Tasks : call_pending_requests(t)
    \/ \E t \in Tasks, s \in LockSessions, d \in TrustDomains : call_add_trusted_domain(t, s, d)
    \/ \E t \in Tasks, s \in LockSessions, d \in TrustDomains : call_remove_trusted_domain(t, s, d)
    \/ \E t \in Tasks, s \in LockSessions : call_list_trusted_domains(t, s)
    \/ \E t \in Tasks : Poll(t)

LockSpec == LockInit /\ [][LockNext]_vars

\* the runtime polls every task that can go on
FairLockSpec ==
    /\ LockSpec
    /\ \A t \in Tasks : WF_vars(Poll(t))

\* the proxy and its manager while no caller revokes a trusted domain
GrantNext ==
    \/ \E ok \in BOOLEAN : run_bind(ok)
    \/ \E peer \in Peers : run_accept(peer)
    \/ run_accept_error
    \/ \E peer \in Peers, parts \in RequestLines : handle_client(peer, parts)
    \/ \E c \in Peers : handler_check(c)
    \/ \E c \in Peers : handler_create_request(c)
    \/ \E c \in Peers, elapsed \in BOOLEAN : handler_wait(c, elapsed)
    \/ \E c \in Peers, ok \in BOOLEAN : connect_upstream(c, ok)
    \/ \E id \in Ids, decision \in Decisions : resolve_remove(id, decision)
    \/ resolve_insert
    \/ resolve_send
    \/ resolve_warn
    \/ \E s \in Peers, d \in TrustDomains : add_trusted_domain(s, d)
    \/ \E s \in Peers, d \in TrustDomains : CheckCall(s, d)

GrantSpec == Init /\ [][GrantNext]_vars

----------------------------------------------------------------------------
(* Vocabulary of the properties *)

\* candidate domains check is asked about
Candidates ==
    { <<"a">>, <<"A">>, <<"x", ".", "a">>, <<"Y", ".", "x", ".", "a">>,
      <<"x", "a">>, <<"b">> }

ConfigMatches(d) ==
    \E i \in 1..Len(config_allowlist) : matches(config_allowlist[i], d)

\* the connection c takes a step
Steps(c) == conn'[c] # conn[c]

\* the resolve call in flight takes a step
ResolverSteps == resolver' # resolver

\* a resolve call begins and finds the entry of its id
ResolveFinds ==
    resolver.pc = "idle" /\ resolver'.pc \in {"insert", "send"}

\* the resolve call in flight inserts into the session allowlist
ResolveInserts == resolver.pc = "insert" /\ ResolverSteps

\* the resolve call in flight fires the responder and returns
ResolveSends == resolver.pc = "send" /\ ResolverSteps

\* the connection whose request has the id
Waiter(id) == {c \in Peers : conn[c].pc = "waiting" /\ conn[c].id = id}

----------------------------------------------------------------------------
(* C1 *)

\* what one step of the connection c may do with the upstream
C1_Step(c) ==
    \* the policy lets the handler through only on Allow from check ...
    /\ (conn[c].pc = "check" /\ conn'[c].pc = "connect")
          => /\ check_domain(conn[c].session, conn[c].domain) = "Allow"
             /\ conn'[c].action = "Allow"
    \* ... or on Approved from the connection's own request
    /\ (conn[c].pc = "waiting" /\ conn'[c].pc = "connect")
          => /\ chan[conn[c].id].value = "Approved"
             /\ conn'[c].decision = "Approved"
    \* the request is created for the session and the domain that were checked
    /\ (conn[c].pc = "create_request" /\ Steps(c))
          => /\ conn'[c].id \notin DOMAIN pending \cup DOMAIN chan
             /\ pending'[conn'[c].id] =
                   [domain |-> conn[c].domain, session |-> conn[c].session]
    \* the handler keeps its session and domain up to the connect
    /\ (conn[c].pc \in {"check", "create_request", "waiting"}
            /\ conn'[c].pc # "closed")
          => /\ conn'[c].domain = conn[c].domain
             /\ conn'[c].session = conn[c].session
    \* the upstream is tried only past the policy, and it is the checked domain
    /\ (conn'[c].attempted /\ ~conn[c].attempted)
          => /\ conn[c].pc = "connect"
             /\ conn[c].action = "Allow" \/ conn[c].decision = "Approved"
             /\ conn'[c].upstream = conn[c].domain
    \* a handler that ends at the policy has written 403 and tried no upstream
    /\ (conn[c].pc \in {"check", "create_request", "waiting"}
            /\ conn'[c].pc \notin {"check", "create_request", "waiting", "connect"})
          => /\ conn'[c].response = "403"
             /\ ~conn'[c].attempted
             /\ conn'[c].pc = "closed"

\* C1: a proxy connection (CONNECT or HTTP-forward) tries the upstream only
\* after check returned Allow or its own request yielded Approved, and only
\* the domain that was checked; after Deny, Denied or Timeout the handler
\* writes 403 and never connects upstream.
C1_UpstreamOnlyWhenAllowed == [][\A c \in Peers : C1_Step(c)]_vars

\* one peer's connection was refused with 403 after its wait timed out, the
\* other's approved request has let it through to the upstream
C1_Witness ==
    \E c, k \in Peers :
        /\ conn[c].response = "403" /\ conn[c].decision = "Timeout"
        /\ conn[k].pc = "connect" /\ conn[k].decision = "Approved"

----------------------------------------------------------------------------
(* C2 *)

\* C2: in every reachable state, for every session and every domain that
\* matches a config allowlist pattern, check returns Allow, whatever
\* add_trusted_domain, remove_trusted_domain, create_request and resolve
\* calls came before.
C2_ConfigAllowlistAlwaysAllow ==
    \A s \in Peers, d \in Candidates :
        ConfigMatches(d) => check_domain(s, d) = "Allow"

\* remove_trusted_domain has emptied the entry of a session for a domain the
\* config allows, and a request was resolved
C2_Witness ==
    \E s \in Peers :
        /\ ConfigMatches(<<"A">>)
        /\ s \in DOMAIN session_allowlist
        /\ session_allowlist[s] = {}
        /\ \E id \in Ids : resolves[id] = 1
        /\ check_domain(s, <<"A">>) = "Allow"

----------------------------------------------------------------------------
(* C3 *)

\* C3: create_request(s, d) followed by resolve(id, Approved) makes the paired
\* receiver yield Approved and makes a subsequent check(s, d) return Allow:
\* the call that finds the entry goes on to insert, its insertion makes
\* check(s, d) Allow for the s and d of the connection that waits on id, and
\* its send makes that connection's wait return Approved.
C3_ApprovedRoundTrip ==
    [][ /\ (ResolveFinds /\ resolver'.decision = "Approved")
              => resolver'.pc = "insert"
        /\ (ResolveInserts /\ resolver.decision = "Approved")
              => /\ \A s \in {resolver.req.session}, d \in {resolver.req.domain} :
                       check_domain(s, d)' = "Allow"
                 /\ \A c \in Waiter(resolver.id) :
                       \A s \in {conn[c].session}, d \in {conn[c].domain} :
                          check_domain(s, d)' = "Allow"
        /\ (ResolveSends /\ resolver.decision = "Approved")
              => \A id \in {resolver.id}, elapsed \in BOOLEAN :
                    Waiter(id) # {} => wait_for_decision(id, elapsed)' = "Approved"
      ]_vars

\* an Approved resolve has returned while the connection still waits: its
\* receiver holds Approved and check allows its domain, which no config
\* pattern matches
C3_Witness ==
    \E c \in Peers :
        /\ conn[c].pc = "waiting"
        /\ resolver.pc = "idle"
        /\ chan[conn[c].id].value = "Approved"
        /\ ~ConfigMatches(conn[c].domain)
        /\ conn[c].domain # to_lowercase(conn[c].domain)
        /\ check_domain(conn[c].session, conn[c].domain) = "Allow"

----------------------------------------------------------------------------
(* C4 *)

\* C4: for a domain not otherwise allowed, create_request followed by
\* resolve(id, Denied) makes the paired receiver yield Denied and leaves the
\* session allowlist unchanged, so check(s, d) is still NeedsApproval: no step
\* of a Denied resolve changes the session allowlist or the action check
\* returns for the request, and its send makes the waiting connection's wait
\* return Denied.
C4_DeniedRoundTrip ==
    [][ (resolver'.decision = "Denied" \/ resolver.decision = "Denied")
        /\ ResolverSteps
          => /\ UNCHANGED session_allowlist
             /\ \A s \in Peers, d \in Candidates :
                   check_domain(s, d)' = check_domain(s, d)
             /\ ResolveSends
                   => \A id \in {resolver.id}, elapsed \in BOOLEAN :
                         Waiter(id) # {} => wait_for_decision(id, elapsed)' = "Denied"
      ]_vars

\* a Denied resolve has returned while the connection still waits: its
\* receiver holds Denied and check still asks for approval
C4_Witness ==
    \E c \in Peers :
        /\ conn[c].pc = "waiting"
        /\ resolver.pc = "idle"
        /\ chan[conn[c].id].value = "Denied"
        /\ check_domain(conn[c].session, conn[c].domain) = "NeedsApproval"

----------------------------------------------------------------------------
(* C5 *)

\* a step of the request/response flow: create_request, wait_for_decision or
\* resolve (pending_requests and list_trusted_domains change no state at all)
FlowStep ==
    \/ pending' # pending
    \/ chan' # chan
    \/ next_id' # next_id
    \/ ResolverSteps
    \/ conn' # conn

\* C5: within the request/response flow only a resolve whose decision is
\* Approved changes the session allowlist; create_request, wait_for_decision,
\* pending_requests, list_trusted_domains and resolve with Denied or Timeout,
\* for a known or an unknown id, leave every session's allowlist unchanged.
C5_OnlyApprovedMutates ==
    [][ (FlowStep /\ session_allowlist' # session_allowlist)
          => /\ ResolveInserts
             /\ resolver.decision = "Approved"
             /\ session_allowlist' =
                   AllowlistInsert(session_allowlist,
                                   resolver.req.session, resolver.req.domain)
      ]_vars

\* a request was resolved with Timeout by the approver, another timed out
\* unresolved, and the session allowlist is still empty
C5_Witness ==
    /\ session_allowlist = <<>>
    /\ \E id \in Ids : resolves[id] = 1
    /\ \E id \in DOMAIN pending : id \in DOMAIN chan /\ chan[id].rx = "dropped"
    /\ resolver.pc = "send" /\ resolver.decision = "Timeout"

----------------------------------------------------------------------------
(* C6 *)

\* the wait on the request id has returned Timeout: its receiver was dropped
\* without a value
TimedOut(id) == id \in DOMAIN chan /\ chan[id].rx = "dropped"

\* C6: a timed-out domain never enters the session allowlist: once
\* wait_for_decision for the request id has returned Timeout, a later
\* resolve(id, decision) does not go on to insert, and no step of a resolve of
\* a timed-out request changes the session allowlist or turns a check into
\* Allow.
C6_TimedOutNeverEnters ==
    [][ /\ (resolver.pc = "idle" /\ ResolverSteps /\ TimedOut(resolver'.id))
              => resolver'.pc # "insert"
        /\ (resolver.pc # "idle" /\ ResolverSteps /\ TimedOut(resolver.id))
              => /\ UNCHANGED session_allowlist
                 /\ \A s \in Peers, d \in Candidates :
                       check_domain(s, d)' = check_domain(s, d)
      ]_vars

----------------------------------------------------------------------------
(* C7 *)

\* the return of the wait of connection c: one outcome, the delivered decision
\* if there is one and Timeout otherwise, and the receiver is consumed
C7_Return(c) ==
    (conn[c].pc = "waiting" /\ Steps(c))
      => /\ conn'[c].pc # "waiting"
         /\ conn'[c].decision =
               IF chan[conn[c].id].value # None THEN chan[conn[c].id].value
               ELSE "Timeout"
         /\ conn[c].id \in DOMAIN chan' => chan'[conn[c].id].rx # "alive"

\* a decision enters a channel only by the send of the resolve of its id, and
\* it is the decision passed to that resolve
C7_Delivery ==
    \A id \in DOMAIN chan' :
        /\ id \notin DOMAIN chan => chan'[id].value = None
        /\ (id \in DOMAIN chan /\ chan'[id].value # None
                /\ chan'[id].value # chan[id].value)
              => /\ ResolveSends
                 /\ resolver.id = id
                 /\ chan'[id].value = resolver.decision
                 /\ chan[id].value = None

\* C7: for one pending-request id, under every interleaving of resolve with
\* the expiry of the timeout, wait_for_decision returns exactly one outcome:
\* the decision passed to resolve if it was delivered before the timeout was
\* observed, otherwise Timeout; a receiver has one waiter and is consumed by
\* its return, no decision is returned that was not sent, and every wait
\* returns.
C7_ExactlyOneOutcome ==
    /\ [][(\A c \in Peers : C7_Return(c)) /\ C7_Delivery]_vars
    /\ [](\A id \in DOMAIN chan :
             chan[id].rx = "alive" <=> Cardinality(Waiter(id)) = 1)
    /\ \A c \in Peers : (conn[c].pc = "waiting") ~> (conn[c].pc # "waiting")

\* both orders of the race have happened: one wait returned the Approved it
\* was sent, another timed out while the resolve of its id was about to send
C7_Witness ==
    \E c, k \in Peers :
        /\ conn[c].pc = "connect" /\ conn[c].decision = "Approved"
        /\ conn[k].pc = "closed" /\ conn[k].decision = "Timeout"
        /\ resolver.pc = "send" /\ TimedOut(resolver.id)

----------------------------------------------------------------------------
(* C8 *)

\* C8: a pending request's responder fires at most once: over all resolve
\* calls on one id, with any decisions, exactly one finds the entry, sends
\* its decision and (if Approved) updates the session allowlist; every other
\* call finds no entry and changes nothing.
C8_ResponderFiresOnce ==
    /\ [](\A id \in Ids : /\ resolves[id] <= 1
                          /\ resolves[id] = 1 => id \notin DOMAIN pending)
    /\ [][ /\ ResolveFinds
              => /\ resolves[resolver'.id] = 0
                 /\ resolver'.id \in DOMAIN chan /\ chan[resolver'.id].tx = "held"
                 /\ resolver'.pc = "insert" <=> resolver'.decision = "Approved"
           /\ ResolveSends
              => /\ chan[resolver.id].tx = "held"
                 /\ resolver.id \in DOMAIN chan' => chan'[resolver.id].tx = "sent"
           /\ \A id \in DOMAIN chan :
                 chan[id].tx = "sent" => id \notin DOMAIN chan' \/ chan'[id] = chan[id]
                                           \/ chan'[id].tx = "sent"
           /\ (resolver.pc = "idle" /\ ResolverSteps /\ resolves[resolver'.id] = 1)
              => /\ resolver'.pc = "warn"
                 /\ UNCHANGED <<session_allowlist, pending, chan, resolves>>
         ]_vars

\* a second resolve of an id, with another decision than the first, has found
\* no entry
C8_Witness ==
    \E id \in Ids :
        /\ resolves[id] = 1
        /\ id \in DOMAIN chan /\ chan[id].value = "Denied"
        /\ resolver.pc = "warn" /\ resolver.id = id /\ resolver.decision = "Approved"

----------------------------------------------------------------------------
(* C9 *)

\* C9: resolve(id, decision) with an id that is not in the pending table
\* (never created, or already resolved) is a no-op for every decision,
\* Approved included: it takes the warning branch, returns, and leaves the
\* pending table, the session allowlist and every channel unchanged.
C9_UnknownIdNoOp ==
    [][ /\ (resolver.pc = "idle" /\ ResolverSteps /\ resolver'.id \notin DOMAIN pending)
              => /\ resolver'.pc = "warn"
                 /\ UNCHANGED <<pending, session_allowlist, chan, resolves>>
        /\ (resolver.pc = "warn" /\ ResolverSteps)
              => /\ resolver' = IdleResolver
                 /\ UNCHANGED <<pending, session_allowlist, chan, resolves>>
      ]_vars

\* an Approved resolve of an id that was never created is in its warning
\* branch, while another request is pending and the allowlist is empty
C9_Witness ==
    /\ resolver.pc = "warn" /\ resolver.decision = "Approved"
    /\ resolver.id >= next_id
    /\ pending # <<>>
    /\ session_allowlist = <<>>

----------------------------------------------------------------------------
(* C10 *)

\* the ids create_request has returned
Created == 1..(next_id - 1)

\* C10: at every point pending_requests() holds exactly one (id, domain,
\* session) triple for each request create_request has created and no resolve
\* has found, with the domain and session given to create_request, and no
\* other triple; each resolve of a known id removes exactly that triple.
C10_PendingRequestsExact ==
    /\ [](/\ {t[1] : t \in pending_requests} = {id \in Created : resolves[id] = 0}
          /\ \A t, u \in pending_requests : t[1] = u[1] => t = u)
    /\ [][ /\ \A c \in Peers :
                 (conn[c].pc = "create_request" /\ Steps(c))
                    => /\ conn'[c].id \notin Created
                       /\ pending_requests' = pending_requests \cup
                             { <<conn'[c].id, conn[c].domain, conn[c].session>> }
           /\ ResolveFinds
                 => /\ pending_requests' = pending_requests \
                          { <<resolver'.id, resolver'.req.domain, resolver'.req.session>> }
                    /\ <<resolver'.id, resolver'.req.domain, resolver'.req.session>>
                          \in pending_requests
           /\ (~ResolveFinds
                  /\ \A c \in Peers : ~(conn[c].pc = "create_request" /\ Steps(c)))
                 => pending_requests' = pending_requests
         ]_vars

\* two requests were created, for a domain that is not lower case; one was
\* resolved and the other is the only triple left
C10_Witness ==
    /\ next_id = 3
    /\ \E id \in Ids : resolves[id] = 1
    /\ \E t \in pending_requests :
          /\ pending_requests = {t}
          /\ t[2] # to_lowercase(t[2])
          /\ resolves[t[1]] = 0

----------------------------------------------------------------------------
(* C11 *)

\* C11: every PendingDomainRequest is eventually destroyed: its entry leaves
\* the pending table when it is resolved, or when it is abandoned because its
\* wait returned Timeout; an abandoned request that nobody resolves does not
\* stay in the pending table.
C11_PendingEventuallyDestroyed ==
    \A id \in Ids : (id \in DOMAIN pending) ~> (id \notin DOMAIN pending)

----------------------------------------------------------------------------
(* C12 *)

\* a step that edits the allowlist of session s1: add_trusted_domain,
\* remove_trusted_domain, or the insertion of an Approved resolve of a request
\* created for s1
EditsSession(s1) ==
    \/ \E d \in TrustDomains : add_trusted_domain(s1, d)
    \/ \E d \in TrustDomains : remove_trusted_domain(s1, d)
    \/ ResolveInserts /\ resolver.req.session = s1

\* the domains the checks of the other session are compared on: the two the
\* clients ask for, and one only the config can allow
Asked == { <<"A">>, <<"x", ".", "a">>, <<"b">> }

\* C12: session allowlists are isolated: for distinct sessions s1 and s2,
\* add_trusted_domain(s1, d), remove_trusted_domain(s1, d) and resolve(id,
\* Approved) of a request of s1 never change the result of any check(s2, d');
\* after add_trusted_domain(s1, d) check(s1, d) is Allow, and for a domain no
\* config pattern matches check(s, d) is Allow exactly when the entry of s
\* itself holds d, so that check(s2, d) is NeedsApproval.
C12_SessionIsolation ==
    /\ [](\A s \in Peers, d \in Asked :
             ~ConfigMatches(d)
                => (check_domain(s, d) = "Allow"
                       <=> to_lowercase(d) \in SessionDomains(s)))
    /\ [][ \A s1 \in Peers :
             /\ (session_allowlist' # session_allowlist /\ EditsSession(s1))
                   => \A s2 \in Peers \ {s1}, d2 \in Asked :
                         check_domain(s2, d2)' = check_domain(s2, d2)
             /\ \A d \in TrustDomains :
                   add_trusted_domain(s1, d)
                      => \A t \in {s1}, e \in {d} : check_domain(t, e)' = "Allow"
         ]_vars

\* a domain no config pattern matches is trusted for one session, which
\* check allows, and not for another, whose own entry was emptied
C12_Witness ==
    \E s1, s2 \in Peers :
        /\ s1 # s2
        /\ ~ConfigMatches(<<"A">>)
        /\ check_domain(s1, <<"A">>) = "Allow"
        /\ check_domain(s2, <<"A">>) = "NeedsApproval"
        /\ s2 \in DOMAIN session_allowlist

----------------------------------------------------------------------------
(* C13 *)

\* C13: for a domain d no config pattern matches, remove_trusted_domain(s, d)
\* restores check(s, d) to NeedsApproval, whatever approvals of d for s came
\* before it (by resolve with Approved, by add_trusted_domain, any number of
\* times): in every reachable state the allowlist that the call leaves has
\* check(s, d) ask for approval, and so does every step of the call.
C13_RemoveRestoresNeedsApproval ==
    /\ [](\A s \in Peers, d \in TrustDomains :
             ~ConfigMatches(d)
                => check_domain_with(AllowlistRemove(session_allowlist, s, d), s, d)
                      = "NeedsApproval")
    /\ [][ \A s \in Peers, d \in TrustDomains :
             (remove_trusted_domain(s, d) /\ ~ConfigMatches(d))
                => \A t \in {s}, e \in {d} : check_domain(t, e)' = "NeedsApproval"
         ]_vars

\* a connection was let through by the approval of its request for a domain
\* no config pattern matches, and after a remove_trusted_domain check asks for
\* approval of that domain again
C13_Witness ==
    \E c \in Peers :
        /\ conn[c].pc = "connect" /\ conn[c].decision = "Approved"
        /\ ~ConfigMatches(conn[c].domain)
        /\ conn[c].domain \in TrustDomains
        /\ conn[c].session \in DOMAIN session_allowlist
        /\ check_domain(conn[c].session, conn[c].domain) = "NeedsApproval"

----------------------------------------------------------------------------
(* C14 *)

\* C14: check(session, domain) mutates nothing: across the check of a
\* connection the session allowlist, the pending table and the rest of the
\* manager are identical, for every outcome; the outcome is the action
\* check_domain gives for the pair, the same check made right after it gives
\* the same action, and so does the check of another connection that waits
\* its turn while no step changes the session allowlist.
C14_CheckMutatesNothing ==
    [][ \A c \in Peers :
          /\ (conn[c].pc = "check" /\ Steps(c))
                => /\ UNCHANGED <<config_allowlist, session_allowlist, pending,
                                  chan, next_id, resolver, resolves>>
                   /\ \A k \in Peers \ {c} : conn'[k] = conn[k]
                   /\ \A s \in {conn[c].session}, d \in {conn[c].domain} :
                         /\ conn'[c] = after_check(conn[c], check_domain(s, d))
                         /\ check_domain(s, d)' = check_domain(s, d)
          /\ (conn[c].pc = "check" /\ conn'[c] = conn[c]
                 /\ UNCHANGED session_allowlist)
                => \A s \in {conn[c].session}, d \in {conn[c].domain} :
                      check_domain(s, d)' = check_domain(s, d)
      ]_vars

\* both outcomes of check have happened, for two connections, and the manager
\* is as it was constructed
C14_Witness ==
    \E c, k \in Peers :
        /\ conn[c].pc = "connect" /\ conn[c].action = "Allow"
        /\ conn[k].pc = "create_request" /\ conn[k].action = "NeedsApproval"
        /\ session_allowlist = <<>>
        /\ pending = <<>>
        /\ next_id = 1

----------------------------------------------------------------------------
(* C15 *)

\* C15: every create_request call adds exactly one new pending entry, under
\* an id never used before in the manager's lifetime, and overwrites no
\* existing entry and no channel, also when an entry of the same (session,
\* domain) pair is pending; the entries of one pair are independent: the
\* resolve of one removes that one and leaves the others.
C15_CreateAddsOneFreshEntry ==
    [][ /\ next_id' >= next_id
        /\ \A c \in Peers :
              (conn[c].pc = "create_request" /\ Steps(c))
                 => /\ conn'[c].id \notin Created
                    /\ conn'[c].id \in Created'
                    /\ conn'[c].id \notin DOMAIN pending \cup DOMAIN chan
                    /\ DOMAIN pending' = DOMAIN pending \cup {conn'[c].id}
                    /\ pending'[conn'[c].id] =
                          [domain |-> conn[c].domain, session |-> conn[c].session]
                    /\ \A j \in DOMAIN pending : pending'[j] = pending[j]
                    /\ \A j \in DOMAIN chan : j \in DOMAIN chan' /\ chan'[j] = chan[j]
                    /\ chan'[conn'[c].id] = NewChannel
        /\ ResolveFinds
              => /\ DOMAIN pending' = DOMAIN pending \ {resolver'.id}
                 /\ \A j \in DOMAIN pending' : pending'[j] = pending[j]
      ]_vars

\* two requests were created for one (session, domain) pair; the resolve of
\* one has removed its entry and the entry of the other is still pending
C15_Witness ==
    /\ resolver.pc \in {"insert", "send"}
    /\ \E j \in DOMAIN pending :
          /\ j # resolver.id
          /\ pending[j] = resolver.req

----------------------------------------------------------------------------
(* C16 *)

\* the wait of connection c on a request no resolve has found
WaitsUnresolved(c) ==
    /\ conn[c].pc = "waiting"
    /\ resolves[conn[c].id] = 0

\* C16: wait_for_decision on the receiver of a request that is never
\* resolved eventually returns Timeout, and not before the configured timeout
\* has elapsed: while the timeout has not elapsed the wait stays suspended,
\* once it has the wait returns Timeout; the return of an unresolved wait is a
\* poll at which the timeout has elapsed and yields Timeout, as is every
\* return with Timeout that no resolve delivered; and every wait returns
\* Timeout unless a resolve finds its request.
C16_UnresolvedWaitTimesOut ==
    /\ [](\A c \in Peers :
             WaitsUnresolved(c)
                => /\ wait_for_decision(conn[c].id, FALSE) = None
                   /\ wait_for_decision(conn[c].id, TRUE) = "Timeout")
    /\ [][ \A c \in Peers :
             /\ (WaitsUnresolved(c) /\ Steps(c))
                   => /\ conn'[c] = Closed("403", FALSE, "Timeout")
                      /\ handler_wait(c, TRUE)
                      /\ ~handler_wait(c, FALSE)
             /\ (conn[c].pc = "waiting" /\ Steps(c) /\ conn'[c].decision = "Timeout"
                    /\ chan[conn[c].id].value = None)
                   => ~handler_wait(c, FALSE)
         ]_vars
    /\ \A c \in Peers, id \in Ids :
          (conn[c].pc = "waiting" /\ conn[c].id = id)
             ~> \/ conn[c].pc = "closed" /\ conn[c].decision = "Timeout"
                \/ resolves[id] > 0

\* a wait has returned Timeout and no resolve call has found or sought
\* anything
C16_Witness ==
    /\ \E c \in Peers : conn[c].pc = "closed" /\ conn[c].decision = "Timeout"
    /\ \A id \in Ids : resolves[id] = 0
    /\ resolver = IdleResolver
    /\ next_id = 2
    /\ pending # <<>>

----------------------------------------------------------------------------
(* C17 *)

\* the sender of the channel connection c waits on was dropped, nothing sent
SenderDropped(c) ==
    /\ conn[c].pc = "waiting"
    /\ chan[conn[c].id].tx = "dropped"
    /\ chan[conn[c].id].value = None

\* C17: when the sending half of a request's one-shot channel is dropped
\* without a decision having been sent, wait_for_decision returns Denied,
\* whether or not the timeout has elapsed, and the proxy connection waiting
\* on it ends as it does for an explicit denial: 403, no upstream.
C17_SenderDroppedIsDenied ==
    /\ [](\A c \in Peers :
             SenderDropped(c)
                => \A elapsed \in BOOLEAN :
                      wait_for_decision(conn[c].id, elapsed) = "Denied")
    /\ [][ \A c \in Peers :
             /\ (SenderDropped(c) /\ Steps(c))
                   => /\ conn'[c] = Closed("403", FALSE, "Denied")
                      /\ conn'[c] = after_decision(conn[c], "Denied")
             /\ (conn[c].pc = "waiting" /\ chan[conn[c].id].value = "Denied"
                    /\ Steps(c))
                   => conn'[c] = Closed("403", FALSE, "Denied")
         ]_vars

\* a connection was refused with 403 on Denied though no resolve call has
\* found a request: its sender was dropped
C17_Witness ==
    /\ \E c \in Peers : conn[c] = Closed("403", FALSE, "Denied")
    /\ \A id \in Ids : resolves[id] = 0
    /\ pending = <<>>

----------------------------------------------------------------------------
(* C18 *)

\* C18: the insertion made by resolve(id, Approved) for a request on (s, d)
\* is visible to every check(s, d) that starts after the call has returned:
\* the call inserts before it returns and check(s, d) is Allow from the
\* insertion on; a check result of s stops being Allow only by a
\* remove_trusted_domain of s, whatever the other sessions do; and the check
\* of a handler returns the action of the allowlist as it is at the check.
C18_ApprovalVisibleToLaterChecks ==
    [][ /\ (ResolveInserts /\ resolver.decision = "Approved")
              => /\ resolver'.pc = "send"
                 /\ \A s \in {resolver.req.session}, d \in {resolver.req.domain} :
                       check_domain(s, d)' = "Allow"
        /\ ResolveSends => UNCHANGED session_allowlist
        /\ session_allowlist' # session_allowlist
              => \A s \in Peers, d \in Asked :
                    (check_domain(s, d) = "Allow" /\ check_domain(s, d)' # "Allow")
                       => \E d2 \in TrustDomains : remove_trusted_domain(s, d2)
        /\ \A c \in Peers :
              (conn[c].pc = "check" /\ Steps(c))
                 => \A s \in {conn[c].session}, d \in {conn[c].domain} :
                       conn'[c] = after_check(conn[c], check_domain(s, d))
      ]_vars

\* the session's request for a domain no config pattern matches and no
\* add_trusted_domain is made for was approved, the resolve has returned, and
\* the check of a later connection of the session has returned Allow
C18_Witness ==
    \E c \in Peers :
        /\ conn[c].pc = "connect" /\ conn[c].action = "Allow"
        /\ ~ConfigMatches(conn[c].domain)
        /\ conn[c].domain \notin TrustDomains
        /\ resolver = IdleResolver

----------------------------------------------------------------------------
(* C19 *)

\* the handler of connection c takes one of its own steps
HandlerStep(c) ==
    \/ \E parts \in RequestLines : handle_client(c, parts)
    \/ handler_check(c)
    \/ handler_create_request(c)
    \/ \E elapsed \in BOOLEAN : handler_wait(c, elapsed)
    \/ \E ok \in BOOLEAN : connect_upstream(c, ok)

\* C19: once the shutdown signal is true, run (having bound) eventually
\* leaves its accept loop and returns Ok, and once it has returned it stays
\* returned and accepts no connection; handlers and approval waits in flight
\* are not cancelled: the return of run changes no connection and nothing of
\* the manager, afterwards a connection changes only by a step of its own
\* handler, and a wait in flight still returns.
C19_ShutdownStopsAccepting ==
    /\ (run.pc = "accept" /\ shutdown = "true")
          ~> (run.pc = "returned" /\ run.result = "Ok")
    /\ (shutdown = "true") ~> (run.pc = "returned")
    /\ [][ /\ run.pc = "returned"
              => /\ run' = run
                 /\ \A c \in Peers :
                       /\ conn'[c].pc = "read" => conn[c].pc = "read"
                       /\ Steps(c) => HandlerStep(c)
           /\ (run.pc # "returned" /\ run'.pc = "returned")
              => /\ UNCHANGED <<conn, pending, chan, session_allowlist, resolver>>
                 /\ run.pc = "accept" => (shutdown_signal /\ run'.result = "Ok")
         ]_vars
    /\ \A c \in Peers :
          (run.pc = "returned" /\ conn[c].pc = "waiting") ~> (conn[c].pc # "waiting")

\* run has returned Ok on the signal; a connection accepted before that is
\* past its approval and about to connect upstream, another waits for
\* approval
C19_Witness ==
    /\ run = [pc |-> "returned", result |-> "Ok"]
    /\ shutdown = "true"
    /\ \E c, k \in Peers :
          /\ conn[c].pc = "connect" /\ conn[c].decision = "Approved"
          /\ conn[k].pc = "waiting"

----------------------------------------------------------------------------
(* C20 *)

\* what no connection does to run and to the other connections: a step of a
\* connection (its handler returning an error included) leaves run and every
\* other connection as they are, and while run is in its loop a free peer can
\* be accepted and an accepted connection handled, whatever the others do
C20_Unaffected ==
    /\ [][ \A c \in Peers :
             Steps(c) => /\ run' = run
                         /\ \A k \in Peers \ {c} : conn'[k] = conn[k] ]_vars
    /\ [](\A k \in Peers :
             /\ (run.pc = "accept" /\ conn[k].pc = "closed")
                   => ENABLED run_accept(k)
             /\ conn[k].pc = "read"
                   => ENABLED (\E parts \in RequestLines : handle_client(k, parts))
             /\ conn[k].pc = "check" => ENABLED handler_check(k)
             /\ conn[k].pc = "connect"
                   => ENABLED (\E ok \in BOOLEAN : connect_upstream(k, ok)))

\* C20 as stated: after a successful bind, the accept loop of run ends only
\* when the shutdown signal (true) is observed; neither an accept error, nor
\* a handler returning an error, nor a handler that blocks forever makes run
\* return or prevents later connections from being accepted and handled.
C20_LoopEndsOnlyOnSignal ==
    /\ [][ (run.pc = "accept" /\ run' # run)
              => (shutdown = "true" /\ run' = [pc |-> "returned", result |-> "Ok"])
         ]_vars
    /\ C20_Unaffected

\* C20, amended: after a successful bind, the accept loop of run ends only
\* when the shutdown signal is observed true or the sender of the shutdown
\* channel has been dropped; neither an accept error, nor a handler returning
\* an error, nor a handler that blocks forever makes run return or prevents
\* later connections from being accepted and handled.
C20_LoopEndsOnlyOnSignalOrClosed ==
    /\ [][ (run.pc = "accept" /\ run' # run)
              => /\ shutdown \in {"true", "closed"}
                 /\ run' = [pc |-> "returned", result |-> "Ok"]
         ]_vars
    /\ C20_Unaffected

\* run is in its loop with no shutdown signalled: one connection never sent
\* its request line, an earlier request was abandoned at its timeout, and a
\* later connection has been accepted and handled up to its upstream connect
C20_Witness ==
    /\ run.pc = "accept" /\ shutdown = "false"
    /\ \E c, k \in Peers :
          /\ conn[c].pc = "read"
          /\ conn[k].pc = "connect"
    /\ \E id \in DOMAIN pending : TimedOut(id)


----------------------------------------------------------------------------
(* C21 *)

\* the request line of c's connection was well-formed and asked for a tunnel
IsConnect(c) == eq_ignore_ascii_case(io[c].verb, CONNECT)

\* the policy let the request of c's connection through
PolicyAllows(c) == conn[c].action = "Allow" \/ conn[c].decision = "Approved"

\* the step writes the status response r to the client of c
Writes(c, r) == conn[c].response = None /\ conn'[c].response = r

\* the step relays bytes of c's connection, in either direction
Relays(c) == io'[c].up # io[c].up \/ io'[c].down # io[c].down

\* C21: a CONNECT connection with a well-formed request line gets at most one
\* status response: 403 exactly when check said Deny or the decision was
\* Denied or Timeout; 502 exactly when the policy let it through and the
\* upstream connect failed; 200 exactly when the policy let it through and the
\* upstream connect succeeded, written once the upstream connection is open
\* and before any byte is relayed.
C21_ConnectStatus ==
    [][\A c \in Peers :
         IsConnect(c)
         => /\ Steps(c)
               => /\ conn[c].response # None
                     => conn'[c].response = conn[c].response
                  /\ Writes(c, "403")
                     <=> \/ /\ conn[c].pc = "check"
                            /\ check_domain(conn[c].session, conn[c].domain) = "Deny"
                         \/ /\ conn[c].pc = "waiting"
                            /\ conn'[c].decision \in {"Denied", "Timeout"}
                  /\ Writes(c, "502")
                     <=> conn[c].pc = "connect" /\ io'[c].upstream = "failed"
                  /\ Writes(c, "200")
                     <=> conn[c].pc = "connected" /\ io[c].upstream = "open"
                  /\ conn[c].pc \in {"connect", "connected"} => PolicyAllows(c)
                  /\ conn[c].pc = "connect" /\ io'[c].upstream = "open"
                     => conn'[c].pc = "connected"
                  /\ Writes(c, "200") => io[c].up = <<>> /\ io[c].down = <<>>
            /\ Relays(c) => conn[c].response = "200" /\ io[c].upstream = "open"
      ]_vars

\* an approved tunnel has been answered 200 and has relayed bytes both ways
C21_Witness ==
    \E c \in Peers :
        /\ IsConnect(c)
        /\ conn[c].decision = "Approved"
        /\ conn[c].response = "200"
        /\ io[c].up # <<>> /\ io[c].down # <<>>


----------------------------------------------------------------------------
(* C22 *)

IsPrefix(a, b) == Len(a) <= Len(b) /\ SubSeq(b, 1, Len(a)) = a

\* the first line of s, with its terminator
FirstLine(s) ==
    IF HasLine(s) THEN SubSeq(s, 1, Min(Positions(s, "\n"))) ELSE s

\* what follows the first line of s
AfterFirstLine(s) ==
    IF HasLine(s) THEN SubSeq(s, Min(Positions(s, "\n")) + 1, Len(s)) ELSE <<>>

\* what follows the first blank line of s
RECURSIVE AfterBlankLine(_)
AfterBlankLine(s) ==
    IF s = <<>> THEN <<>>
    ELSE IF trim(FirstLine(s)) = <<>> THEN AfterFirstLine(s)
         ELSE AfterBlankLine(AfterFirstLine(s))

\* the bytes the client sends after the blank line that ends its request head
AfterHead(script) == AfterBlankLine(AfterFirstLine(script))

\* c's connection is, or has been, in the relaying state
Relaying(c) ==
    io[c].upstream = "open" /\ conn[c].pc \in {"relay", "closed"}

\* the client's bytes the relay has delivered to the upstream
RelayedUp(c) ==
    IF IsConnect(c) THEN io[c].up
    ELSE SubSeq(io[c].up, Len(request_head(io[c])) + 1, Len(io[c].up))

\* C22: in the relaying state the upstream is delivered the bytes the client
\* sent after its request head, once each, in order and unmodified (all of
\* them when the relay has ended), and the client is delivered the upstream's
\* bytes likewise, however the client's bytes were split across socket reads.
C22_RelayDeliversEveryByte ==
    \A c \in Peers :
        Relaying(c)
        => /\ IsPrefix(RelayedUp(c), AfterHead(io[c].script))
           /\ IsPrefix(io[c].down, UpstreamBytes)
           /\ conn[c].pc = "closed"
              => /\ RelayedUp(c) = AfterHead(io[c].script)
                 /\ io[c].down = UpstreamBytes


----------------------------------------------------------------------------
(* C23 *)

\* the request line of c's connection was well-formed and was not a CONNECT
IsForward(c) == io[c].verb # <<>> /\ ~IsConnect(c)

\* the tokens of the request line the client sent
SentRequestLine(script) == split_whitespace(trim_end(FirstLine(script)))

\* the header lines the client sent: the lines after the request line, up to
\* the blank line
RECURSIVE HeaderLines(_)
HeaderLines(s) ==
    IF s = <<>> \/ trim(FirstLine(s)) = <<>> THEN <<>>
    ELSE FirstLine(s) \o HeaderLines(AfterFirstLine(s))

\* the path of an absolute URL scheme://authority[/path]: what starts at the
\* first '/' after the authority, or "/" if there is none
PathOf(url) ==
    LET sep == Min({i \in 1..Len(url) - 2 :
                       SubSeq(url, i, i + 2) = <<":", "/", "/">>})
        slashes == {i \in Positions(url, "/") : i > sep + 2}
    IN IF slashes = {} THEN <<"/">> ELSE SubSeq(url, Min(slashes), Len(url))

\* the head the upstream is to receive for what the client sent
ForwardedHead(script) ==
    SentRequestLine(script)[1] \o <<" ">> \o PathOf(SentRequestLine(script)[2])
        \o <<" ", "H", "T", "T", "P", "/", "1", ".", "1", "\r", "\n">>
        \o HeaderLines(AfterFirstLine(script))
        \o <<"\r", "\n">>

\* C23: on the HTTP-forward path, once the policy has let the request through
\* and the upstream connect has succeeded, the upstream receives first the
\* request line "<method> <path of the URL, or /> HTTP/1.1", then the
\* client's header lines unmodified and in order, then one blank line, all
\* before any relayed byte; the client is written no 200.
C23_ForwardedRequest ==
    \A c \in Peers :
        IsForward(c)
        => /\ conn[c].response # "200"
           /\ io[c].up # <<>> => IsPrefix(ForwardedHead(io[c].script), io[c].up)
           /\ io[c].down # <<>> => io[c].up # <<>>
           /\ Relaying(c) => io[c].up # <<>>
           /\ conn[c].pc = "relay" => PolicyAllows(c)

\* a forwarded request with headers has reached the upstream, and the relay
\* has carried bytes in both directions
C23_Witness ==
    \E c \in Peers :
        /\ IsForward(c)
        /\ conn[c].pc = "relay"
        /\ HeaderLines(AfterFirstLine(io[c].script)) # <<>>
        /\ Len(io[c].up) > Len(ForwardedHead(io[c].script))
        /\ io[c].down # <<>>


----------------------------------------------------------------------------
(* C24 *)

\* the first line the client of c's connection sends is empty or has fewer
\* than two whitespace-separated tokens
Malformed(c) ==
    io[c].script \in ClientScripts /\ Len(SentRequestLine(io[c].script)) < 2

\* C24: a connection whose first line is empty or has fewer than two tokens
\* is a protocol error: its handler only reads that line and ends; it writes
\* no response, calls neither check nor create_request, connects to no
\* upstream, and leaves the manager's state as it was.
C24_ProtocolErrorDropsSilently ==
    /\ [](\A c \in Peers :
            Malformed(c) /\ conn[c].pc # "closed"
            => /\ conn[c].pc = "read"
               /\ ENABLED (handle_client_inner(c)
                           \/ \E n \in 1..Len(io[c].sock) : fill_buf(c, n)))
    /\ [][\A c \in Peers :
            Malformed(c) /\ Steps(c)
            => /\ conn[c].pc = "read"
               /\ conn'[c].pc = "closed"
               /\ conn'[c].response = None
               /\ ~conn'[c].attempted
               /\ io'[c].upstream = "none"
               /\ io'[c].up = <<>> /\ io'[c].down = <<>>
               /\ UNCHANGED <<config_allowlist, session_allowlist, pending,
                              chan, next_id>>
      ]_vars

\* the handler of a connection that sent a one-token line has ended
C24_Witness ==
    \E c \in Peers :
        /\ Malformed(c)
        /\ io[c].script # <<>>
        /\ io[c].sock = <<>>
        /\ conn[c] = Closed(None, FALSE, None)


----------------------------------------------------------------------------
(* C25 *)

\* the places of a handler, in the order of its code
HandlerOrder ==
    <<"read", "headers", "check", "create_request", "waiting", "connect",
      "connected", "relay", "closed">>

Rank(pc) == CHOOSE i \in 1..Len(HandlerOrder) : HandlerOrder[i] = pc

\* C25: no retries. The handler of a connection only moves forward through
\* its code, so that in the connection's lifetime it calls check at most
\* once, creates at most one pending request, waits for at most one decision
\* and attempts at most one upstream connect; a Denied or Timeout decision
\* and a failed upstream connect each end the handler.
C25_NoRetries ==
    [][\A c \in Peers :
         Steps(c)
         => /\ Rank(conn'[c].pc) > Rank(conn[c].pc)
            /\ conn[c].pc = "create_request"
               => next_id' = next_id + 1 /\ conn'[c].pc = "waiting"
            /\ conn[c].pc # "create_request" => next_id' = next_id
            /\ conn[c].pc = "waiting" /\ conn'[c].pc # "connect"
               => conn'[c] = Closed("403", FALSE, conn'[c].decision)
            /\ conn[c].attempted => conn'[c].pc \in {"relay", "closed"}
            /\ conn[c].pc = "connect" /\ conn'[c].pc # "connected"
               => /\ io'[c].upstream = "failed"
                  /\ conn'[c].pc = "closed"
                  /\ conn'[c].response = "502"
      ]_vars

\* a connection was approved on its one request, its one upstream connect
\* failed, and its handler has ended
C25_Witness ==
    \E c \in Peers :
        /\ conn[c].pc = "closed"
        /\ conn[c].response = "502"
        /\ io[c].upstream = "failed"
        /\ next_id = 2
        /\ resolves[1] = 1


----------------------------------------------------------------------------
(* C26 *)

NoDuplicates(r) == \A i, j \in 1..Len(r) : r[i] = r[j] => i = j

\* the config patterns in their string form
RenderedConfig == {render(config_allowlist[i]) : i \in 1..Len(config_allowlist)}

\* C26: for every config list and every state of the session's entry,
\* list_trusted_domains(s) is a list without duplicates whose elements are
\* the rendered config patterns together with the session's domains.
C26_ListIsDeduplicatedUnion ==
    \A s \in Peers :
        \A order \in Orders(SessionDomains(s)) :
            LET result == list_trusted_domains(s, order) IN
            /\ NoDuplicates(result)
            /\ Range(result) = RenderedConfig \cup SessionDomains(s)


----------------------------------------------------------------------------
(* C27 *)

\* the suffixes X of the config entries "*.X"
Suffixes == { <<"X", ".", "a">>, <<"b">> }

\* the names the patterns are matched against
PatternCandidates ==
    { <<"x", ".", "a">>, <<"X", ".", "A">>, <<"Y", ".", "x", ".", "a">>,
      <<"z", "x", ".", "a">>, <<".", "x", ".", "a">>, <<"a">>, <<"b">>,
      <<"B">>, <<"q", ".", "B">>, <<"q", "b">>, <<>> }

\* c, case-folded, is x or a name under x: some '.' of c is followed by
\* exactly x
IsApexOrSubdomain(c, x) ==
    LET lc == to_lowercase(c)
        lx == to_lowercase(x)
    IN \/ lc = lx
       \/ \E k \in 1..Len(lc) : lc[k] = "." /\ SubSeq(lc, k + 1, Len(lc)) = lx

----------------------------------------------------------------------------
(* C28 *)

\* the characters of the model that differ from ch in letter case at most
SameLetter(ch) ==
    {k \in {"a", "A", "b", "B", "x", "X", "y", "Y", "z", "Z", "q", "Q",
            "*", ".", " "} :
        LowerChar(k) = LowerChar(ch)}

\* the strings that differ from d only in letter case
RECURSIVE CaseVariants(_)
CaseVariants(d) ==
    IF d = <<>> THEN {<<>>}
    ELSE {<<h>> \o t : h \in SameLetter(Head(d)), t \in CaseVariants(Tail(d))}

\* C28, as claimed: for every string d, the pattern parsed from d matches d
\* and every string that differs from d only in letter case.
C28_ParseMatchesItself ==
    \A i \in 1..Len(config_allowlist) :
        \A d \in RawPatterns :
            config_allowlist[i] = parse(d)
            => \A v \in CaseVariants(d) : matches(config_allowlist[i], v)

\* C28, amended: for every string d without leading or trailing whitespace,
\* the pattern parsed from d matches d and every string that differs from d
\* only in letter case.
C28_ParseMatchesItselfTrimmed ==
    \A i \in 1..Len(config_allowlist) :
        \A d \in RawPatterns :
            config_allowlist[i] = parse(d) /\ trim(d) = d
            => \A v \in CaseVariants(d) : matches(config_allowlist[i], v)

\* a manager whose only pattern came from "*.X.a", which check applies to
\* that string in another letter case
C28_Witness ==
    /\ config_allowlist = <<parse(<<"*", ".", "X", ".", "a">>)>>
    /\ <<"*", ".", "x", ".", "A">> \in CaseVariants(<<"*", ".", "X", ".", "a">>)
    /\ \A s \in Peers : check_domain(s, <<"*", ".", "x", ".", "A">>) = "Allow"
    /\ \E s \in Peers : SessionDomains(s) = {<<"b">>}


----------------------------------------------------------------------------
(* C29 *)

\* C29: check never returns Deny: in every state of the manager and for
\* every session and domain, its result is Allow or NeedsApproval.
C29_CheckNeverDenies ==
    \A s \in Peers :
        \A d \in PatternCandidates \cup ManagerDomains :
            check_domain(s, d) \in {"Allow", "NeedsApproval"}

\* a session that was trusted with a domain and has had it removed again:
\* check asks for approval of it, and allows another session's domain
C29_Witness ==
    \E s, t \in Peers :
        /\ s \in DOMAIN session_allowlist /\ session_allowlist[s] = {}
        /\ check_domain(s, <<"B">>) = "NeedsApproval"
        /\ <<"b">> \in SessionDomains(t)
        /\ check_domain(t, <<"B">>) = "Allow"

----------------------------------------------------------------------------
(* C30 *)

\* the domains check is asked about, each with its letter-case variants
AskedVariants == UNION {{<<d, v>> : v \in CaseVariants(d)} : d \in Asked}

\* C30: whatever the letter case of the domains passed to add_trusted_domain,
\* remove_trusted_domain and (through create_request) resolve, every string
\* stored in the session allowlist is lowercase, and check gives one answer
\* for all letter-case variants of a domain.
C30_AllowlistIsLowercase ==
    /\ \A s \in DOMAIN session_allowlist :
          \A d \in session_allowlist[s] : d = to_lowercase(d)
    /\ \A s \in Peers :
          \A dv \in AskedVariants :
              check_domain(s, dv[2]) = check_domain(s, dv[1])

\* a request for "A" was approved: the session holds "a", and check allows
\* the session "A" and "a" alike
C30_Witness ==
    \E s \in Peers :
        /\ ~ConfigMatches(<<"A">>)
        /\ \E id \in Ids : resolves[id] = 1
        /\ <<"a">> \in SessionDomains(s)
        /\ check_domain(s, <<"A">>) = "Allow"
        /\ check_domain(s, <<"a">>) = "Allow"


----------------------------------------------------------------------------
(* C31 *)

\* the number of bytes of the request head of c's connection: the request
\* line, the header lines and the blank line
HeadLength(c) == Len(io[c].script) - Len(AfterHead(io[c].script))

\* the number of bytes the lines read_line has returned to c's handler add
\* up to
LinesRead(c) ==
    Len(io[c].script) - Len(io[c].sock) - Len(io[c].buf) - Len(io[c].line)

\* the handler of c's connection has read the request head up to its
\* terminating blank line
HeadRead(c) == LinesRead(c) >= HeadLength(c)

\* C31: on both paths the remaining header lines have been read up to the
\* blank line before check is called: while the handler is calling check,
\* creating a pending request or waiting for a decision, and when it has
\* answered 403, the request head is not unread.
C31_HeadReadBeforePolicy ==
    \A c \in Peers :
        /\ io[c].verb # <<>>
        /\ \/ conn[c].pc \in {"check", "create_request", "waiting"}
           \/ conn[c].response = "403"
        => HeadRead(c)


----------------------------------------------------------------------------
(* C32 *)

\* the step moves bytes of c's connection from the client to the upstream
StepsC2u(c) == io'[c].up # io[c].up \/ io'[c].c2u_failed # io[c].c2u_failed

\* the step moves bytes of c's connection from the upstream to the client
StepsU2c(c) == io'[c].down # io[c].down \/ io'[c].u2c_failed # io[c].u2c_failed

\* C32: in the relaying state the two copy directions run concurrently and
\* finish independently: a direction that has not finished can go on whether
\* or not the other has reached end of file or failed, a step of one
\* direction leaves the other as it is, and the handler returns only after
\* both directions have finished.
C32_CopiesFinishIndependently ==
    /\ [](\A c \in Peers :
            conn[c].pc = "relay"
            => /\ ~c2u_finished(io[c])
                  => ENABLED (\E n \in 1..Len(io[c].sock) : copy_c2u(c, n))
               /\ ~u2c_finished(io[c])
                  => ENABLED (\E n \in 1..Len(io[c].usock) : copy_u2c(c, n))
               /\ ENABLED join(c)
                  <=> c2u_finished(io[c]) /\ u2c_finished(io[c]))
    /\ [][\A c \in Peers :
            conn[c].pc = "relay"
            => /\ StepsC2u(c)
                  => /\ UNCHANGED <<io[c].usock, io[c].down, io[c].u2c_failed>>
                     /\ conn'[c] = conn[c]
               /\ StepsU2c(c)
                  => /\ UNCHANGED <<io[c].sock, io[c].up, io[c].c2u_failed>>
                     /\ conn'[c] = conn[c]
               /\ conn'[c].pc = "closed"
                  => c2u_finished(io[c]) /\ u2c_finished(io[c])
      ]_vars

\* the client-to-upstream copy has failed with bytes left to carry, and the
\* other direction has since delivered all of the upstream's bytes; the
\* handler has not returned before that
C32_Witness ==
    \E c \in Peers :
        /\ conn[c].pc = "relay"
        /\ io[c].c2u_failed /\ io[c].sock # <<>>
        /\ io[c].down = UpstreamBytes


----------------------------------------------------------------------------
(* C33 *)

\* the step is a create_request that adds one entry, under a fresh id
CreateAdds ==
    \E c \in Peers :
        /\ conn[c].pc = "create_request" /\ Steps(c)
        /\ next_id \notin DOMAIN pending
        /\ DOMAIN pending' = DOMAIN pending \cup {next_id}
        /\ \A id \in DOMAIN pending : pending'[id] = pending[id]

\* the step is a resolve that removes the entry of its id
ResolveRemoves ==
    /\ ResolveFinds
    /\ resolver'.id \in DOMAIN pending
    /\ DOMAIN pending' = DOMAIN pending \ {resolver'.id}
    /\ \A id \in DOMAIN pending' : pending'[id] = pending[id]

\* C33: the pending table changes only through create_request, which adds
\* one entry, and resolve, which removes the entry of its id; a return of
\* wait_for_decision, whatever its outcome, and every other call leave it
\* unchanged, so a request whose wait timed out stays listed until a resolve
\* finds it.
C33_PendingFrame ==
    /\ [][ /\ pending' # pending => CreateAdds \/ ResolveRemoves
           /\ \A c \in Peers :
                conn[c].pc = "waiting" /\ Steps(c) => pending' = pending
           /\ session_allowlist' # session_allowlist /\ ~ResolveInserts
                => pending' = pending
      ]_vars
    /\ [](\A id \in Ids :
            TimedOut(id) /\ resolves[id] = 0
            => /\ id \in DOMAIN pending
               /\ \E r \in pending_requests : r[1] = id)

\* the wait of a request timed out, its handler answered 403 and ended, and
\* a later resolve has found the entry and removed it
C33_Witness ==
    \E id \in Ids :
        /\ TimedOut(id)
        /\ resolves[id] = 1
        /\ id \notin DOMAIN pending
        /\ resolver.id = id /\ resolver.pc = "send"
        /\ \E c \in Peers : conn[c] = Closed("403", FALSE, "Timeout")


----------------------------------------------------------------------------
(* C34 *)

\* the position of the last ':' of a target that has one
LastColon(t) ==
    CHOOSE k \in 1..Len(t) : t[k] = ":" /\ \A j \in (k + 1)..Len(t) : t[j] # ":"

\* the part of the target before its last ':', the whole target without one
HostPart(t) ==
    IF \E k \in 1..Len(t) : t[k] = ":"
    THEN [i \in 1..(LastColon(t) - 1) |-> t[i]]
    ELSE t

\* the part of the target after its last ':'
PortPart(t) ==
    IF \E k \in 1..Len(t) : t[k] = ":"
    THEN [i \in 1..(Len(t) - LastColon(t)) |-> t[LastColon(t) + i]]
    ELSE <<>>

\* the number a string of decimal digits denotes
RECURSIVE DecimalValue(_)
DecimalValue(p) ==
    IF p = <<>> THEN 0
    ELSE 10 * DecimalValue(SubSeq(p, 1, Len(p) - 1)) + to_digit(p[Len(p)])

\* the port of a target: the number after the last ':' when that is a
\* 16-bit unsigned integer (decimal digits, a '+' allowed before them),
\* otherwise 443
PortOf(t) ==
    LET q == PortPart(t)
        p == IF q # <<>> /\ q[1] = "+" THEN Tail(q) ELSE q
    IN
    IF /\ p # <<>>
       /\ \A i \in 1..Len(p) : IsDigit(p[i])
       /\ DecimalValue(p) < 65536
    THEN DecimalValue(p)
    ELSE 443

\* C34: parsing a CONNECT target never fails: whatever the target of a
\* well-formed CONNECT line, the handler goes on to the headers, with the
\* part before the last ':' (the whole target when there is none) as host
\* and, as port, the number after the last ':' when it is a 16-bit unsigned
\* integer and 443 otherwise.
C34_ParseHostPort ==
    /\ [](\A c \in Peers :
            IsConnect(c)
            => /\ io[c].port = PortOf(io[c].target)
               /\ conn[c].pc # "closed" => conn[c].domain = HostPart(io[c].target)
               /\ conn[c].attempted => conn[c].upstream = HostPart(io[c].target))
    /\ [][\A c \in Peers :
            /\ conn[c].pc = "read" /\ Steps(c)
            /\ Len(SentRequestLine(io[c].script)) >= 2
            => /\ conn'[c].pc = "headers"
               /\ io'[c].target = SentRequestLine(io[c].script)[2]
      ]_vars

\* a tunnel to A:65536 was let through and is relaying, on port 443
C34_Witness ==
    \E c \in Peers :
        /\ io[c].target = <<"A", ":", "6", "5", "5", "3", "6">>
        /\ io[c].port = 443
        /\ conn[c].domain = <<"A">>
        /\ conn[c].pc = "relay"


----------------------------------------------------------------------------
(* C35 *)

\* the waiter of the connection's request has Approved in its channel, or
\* has just taken it out
ObservesApproved(c) ==
    \/ /\ conn[c].pc = "waiting"
       /\ conn[c].id \in DOMAIN chan
       /\ chan[conn[c].id].value = "Approved"
    \/ /\ conn[c].pc = "connect"
       /\ conn[c].decision = "Approved"

\* C35: while no caller revokes a trusted domain, whenever a waiter receives
\* Approved from its one-shot channel the request's lowercased domain is
\* already in the request's session allowlist and check(session, domain)
\* returns Allow: resolve comes to fire the responder with Approved only from
\* its insertion, made into the session allowlist.
C35_ApprovedAfterInsert ==
    /\ [](\A c \in Peers :
            ObservesApproved(c)
            => /\ to_lowercase(conn[c].domain) \in SessionDomains(conn[c].session)
               /\ check_domain(conn[c].session, conn[c].domain) = "Allow")
    /\ [][/\ resolver'.pc = "send"
          /\ resolver.pc # "send"
          /\ resolver'.decision = "Approved"
          => /\ resolver.pc = "insert"
             /\ to_lowercase(resolver.req.domain)
                    \in IF resolver.req.session \in DOMAIN session_allowlist'
                        THEN session_allowlist'[resolver.req.session]
                        ELSE {}
      ]_vars

\* a waiter has received Approved for a domain the configuration does not
\* allow
C35_Witness ==
    \E c \in Peers :
        /\ conn[c].pc = "connect"
        /\ conn[c].decision = "Approved"
        /\ ~ConfigMatches(conn[c].domain)


----------------------------------------------------------------------------
(* C36 *)

\* some task is in a call of the manager
InCall(t) == calls[t].op # None

\* C36: the manager's two locks never deadlock: resolve asks for the
\* session-allowlist write guard while it holds the pending-table write guard,
\* no task asks for the pending-table lock while it holds a guard of the
\* session allowlist, and in every interleaving of concurrent check,
\* create_request, resolve, pending_requests, add_trusted_domain,
\* remove_trusted_domain and list_trusted_domains calls some call in flight
\* can go on and every call completes.
C36_NoDeadlock ==
    /\ [](\A t \in Tasks :
            /\ calls[t].waits = "pending" => ~Holds(t, "session_allowlist")
            /\ calls[t].op = "resolve" /\ calls[t].pc \in {"insert", "send"}
               => locks["pending"].writer = t)
    /\ []((\E t \in Tasks : InCall(t)) => \E t \in Tasks : ENABLED Poll(t))
    /\ \A t \in Tasks : InCall(t) ~> ~InCall(t)

\* a resolve holding the pending write guard is queued for the session write
\* guard behind a check that holds the session read guard, while a
\* create_request is queued for the pending write guard
C36_Witness ==
    \E t, u, v \in Tasks :
        /\ calls[t].op = "resolve" /\ calls[t].waits = "session_allowlist"
        /\ locks["pending"].writer = t
        /\ calls[u].op = "check_domain" /\ Holds(u, "session_allowlist")
        /\ calls[v].op = "create_request" /\ calls[v].waits = "pending"


----------------------------------------------------------------------------
(* C37 *)

\* the handler of the connection waits for the decision on its request
Waits(c) == conn[c].pc = "waiting"

\* the decision the handler has come out of its wait with
Outcome(cn) ==
    IF cn.pc = "connect" THEN "Approved" ELSE cn.decision

\* C37: a pending request's waiter completes only through resolve on its own
\* id, the drop of its own sender, or its own timeout. The waiter comes out
\* with the value of its own channel, with Denied when its sender was
\* dropped, with Timeout otherwise; a value enters a channel only from the
\* resolve call on the channel's id; a request leaves the pending table only
\* by the resolve call on its id. So a step of a resolve call on another id,
\* and every change of the session allowlist, leaves the request pending, its
\* channel as it was and its waiter waiting.
C37_WaiterCompletesByItsOwnChannel ==
    /\ [][\A c \in Peers :
            Waits(c) /\ conn'[c] # conn[c]
            => LET ch == chan[conn[c].id] IN
               Outcome(conn'[c]) =
                   IF ch.value # None THEN ch.value
                   ELSE IF ch.tx = "dropped" THEN "Denied"
                   ELSE "Timeout"
      ]_vars
    /\ [][\A id \in DOMAIN chan :
            /\ id \in DOMAIN chan' /\ chan'[id].value # chan[id].value
               /\ chan'[id].value # None
               => resolver.id = id /\ resolver.pc = "send"
                  /\ chan'[id].value = resolver.decision
            /\ id \in DOMAIN pending /\ id \notin DOMAIN pending'
               => resolver.pc = "idle" /\ resolver'.id = id
      ]_vars
    /\ [][\A c \in Peers :
            /\ Waits(c)
            /\ \/ session_allowlist' # session_allowlist
               \/ resolver' # resolver /\ resolver.id # conn[c].id
                                       /\ resolver'.id # conn[c].id
            => /\ conn'[c] = conn[c]
               /\ chan'[conn[c].id] = chan[conn[c].id]
               /\ conn[c].id \in DOMAIN pending
                  => /\ conn[c].id \in DOMAIN pending'
                     /\ pending'[conn[c].id] = pending[conn[c].id]
      ]_vars

\* another request for the waiter's session and domain has been resolved as
\* Approved, up to the firing of its responder: check returns Allow, and the
\* waiter's request is pending, its channel empty
C37_Witness ==
    \E c \in Peers :
        /\ Waits(c)
        /\ conn[c].id \in DOMAIN pending
        /\ chan[conn[c].id].value = None
        /\ resolver.pc = "send"
        /\ resolver.decision = "Approved"
        /\ resolver.id # conn[c].id
        /\ resolver.req = pending[conn[c].id]
        /\ check_domain(conn[c].session, conn[c].domain) = "Allow"


----------------------------------------------------------------------------
(* C38 *)

\* the sender of the shutdown watch channel was dropped with the value never
\* set to true
WatchSenderDropped == shutdown = "closed"

\* C38: when the sending side of the shutdown watch channel is dropped
\* without the value ever having been set to true, the accept loop treats
\* this as shutdown: the value is never true afterwards, and run, once in its
\* loop, stops accepting and returns Ok.
C38_DroppedSenderIsShutdown ==
    /\ [][WatchSenderDropped => shutdown' = "closed"]_vars
    /\ (WatchSenderDropped /\ run.pc = "accept")
          ~> (WatchSenderDropped /\ run = [pc |-> "returned", result |-> "Ok"])
    /\ [][WatchSenderDropped /\ run.pc = "returned"
          => /\ run' = run
             /\ \A c \in Peers : conn'[c].pc = "read" => conn[c].pc = "read"
      ]_vars

\* the sender was dropped and run has returned Ok, with a connection it had
\* accepted still waiting for approval
C38_Witness ==
    /\ WatchSenderDropped
    /\ run = [pc |-> "returned", result |-> "Ok"]
    /\ \E c \in Peers : conn[c].pc = "waiting"


----------------------------------------------------------------------------
(* C39 *)

\* the connection has passed its policy decision and its handler runs on
PastDecision(c) ==
    /\ PolicyAllows(c)
    /\ conn[c].pc \in {"connect", "connected", "relay"}

\* the step takes a domain out of a session's set
Revokes ==
    \E s \in DOMAIN session_allowlist :
        /\ s \in DOMAIN session_allowlist'
        /\ session_allowlist'[s] # session_allowlist[s]
        /\ session_allowlist'[s] \subseteq session_allowlist[s]

\* C39: the policy is evaluated once per connection, at establishment. A
\* revocation changes the session allowlist and nothing of any connection; a
\* connection past its decision is never sent back to the check and never
\* answered 403; whatever check would return now, it can connect upstream
\* and, relaying, copy the bytes there are in either direction.
C39_RevocationSparesEstablished ==
    /\ [][Revokes => UNCHANGED <<conn, io, pending, chan, resolver>>]_vars
    /\ [][\A c \in Peers :
            PastDecision(c) /\ Steps(c)
            => /\ conn'[c].pc \in {"connect", "connected", "relay", "closed"}
               /\ conn'[c].response # "403"
               /\ conn'[c].pc # "closed" => conn'[c].action = conn[c].action
      ]_vars
    /\ [](\A c \in Peers :
            PastDecision(c)
            => /\ conn[c].pc = "connect" /\ (IsConnect(c) \/ io[c].headers_done)
                  => ENABLED TcpStream_connect(c, TRUE)
               /\ conn[c].pc = "relay" /\ ~io[c].c2u_failed /\ io[c].sock # <<>>
                  => ENABLED copy_c2u(c, 1)
               /\ conn[c].pc = "relay" /\ ~io[c].u2c_failed /\ io[c].usock # <<>>
                  => ENABLED copy_u2c(c, 1))

\* a connection let through has relayed bytes both ways and has more to
\* copy, while check no longer allows its domain for its session
C39_Witness ==
    \E c \in Peers :
        /\ PastDecision(c)
        /\ conn[c].pc = "relay"
        /\ io[c].up # <<>> /\ io[c].down # <<>>
        /\ io[c].usock # <<>>
        /\ check_domain(conn[c].session, conn[c].domain) # "Allow"

============================================================================
